---- MODULE Spec2Model ----
(***************************************************************************)
(* helm-ttl: TTL lifecycle (SetTTL / GetTTL / UnsetTTL), access bundle     *)
(* provisioning (CreateServiceAccountAndRBAC / CleanupRBAC) and the        *)
(* synchronous run path (RunTTL) over a Kubernetes object store.           *)
(***************************************************************************)
EXTENDS Integers, Sequences, FiniteSets, TLC

(***************************************************************************)
(* Program constants                                                       *)
(***************************************************************************)
LabelManagedBy == "app.kubernetes.io/managed-by"
LabelManagedByValue == "helm-ttl"
LabelRelease == "helm-ttl/release"
LabelReleaseNamespace == "helm-ttl/release-namespace"
LabelCronjobNamespace == "helm-ttl/cronjob-namespace"
LabelDeleteNamespace == "helm-ttl/delete-namespace"
LabelTriggeredBy == "helm-ttl/triggered-by"
maxResourceNameLen == 52
DefaultHelmImage == "alpine/helm:latest"
DefaultKubectlImage == "alpine/k8s:latest"

(***************************************************************************)
(* The universe the operations are exercised on                            *)
(***************************************************************************)
\* Releases held by the Helm release store (cfg.Releases).
LongRelease == "a-very-long-release-name-that-will-exceed-it"
\* With the namespace "staging": a derived name of exactly 52 characters, and
\* one of 53.
FitRelease == "a-release-name-that-is-forty-chars-long0"
OverRelease == "a-release-name-that-is-forty-chars-long-1"
StoredReleases == {"myapp", LongRelease, FitRelease, OverRelease}
\* Release names a caller may pass.
ReleaseNames == {"myapp", LongRelease, "ghost"}
ReleaseNamespaces == {"staging"}
CronjobNamespaces == {"staging", "ops"}
ServiceAccountNames == {"default", "ttl-sa"}
\* time.Now(), in minutes since 2025-01-01T00:00Z: 2025-06-15T10:00Z.
Now == 238200
\* Duration texts, already split into number and unit.
Durations == { [n |-> 30, unit |-> "m"], [n |-> 7, unit |-> "d"],
               [n |-> -1, unit |-> "h"] }
\* Exit codes a container may terminate with.
ExitCodes == {0, 1}
\* Bound on the number of public operations started in one behaviour.
MaxOps == 2
\* Bound on the number of RunTTL invocations when the engine is run alone.
MaxRuns == 1
\* Bound on the number of calls when the access provisioner is called directly.
MaxCalls == 2
\* Bound on the number of CleanupOrphaned calls when the sweep is run alone.
MaxSweeps == 2
\* Bound on the number of RunTTL invocations when termination is checked.
MaxLiveRuns == 1
\* Bound on the number of RunTTL invocations next to another caller's SetTTL.
MaxRelabelRuns == 1
\* Bound on the number of consecutive CreateServiceAccountAndRBAC calls.
MaxProvisions == 2
\* Bound on the number of calls when RunTTL is called again.
MaxReruns == 3
\* Bound on the number of calls made with names at the length limit.
MaxNameCalls == 2
\* Calendar fields of the instants the schedule codec is applied to; the
\* years are counted from 2025 and have 365 days.
CodecYears == {0, 1}
CodecDays == {1, 15, 28, 30, 31}
CodecHours == {0, 14, 23}
CodecMinutes == {0, 30, 59}
\* Duration texts ParseTimeInput is applied to on its own.
CodecDurations ==
    [n : {-1, 0, 1, 7, 30, 335, 336, 400, 8040, 8041, 9000},
     unit : {"m", "h", "d", "x"}]
\* Components of the names ResourceName is applied to on its own.
NameParts == {"a", "a-b", "b-c", "c", "myapp", "staging"}

Nil == "nil"

VARIABLES
    cronjobs,            \* batch/v1 CronJob objects
    jobs,                \* batch/v1 Job objects
    pods,                \* core/v1 Pod objects
    serviceAccounts,     \* core/v1 ServiceAccount objects
    roles,               \* rbac/v1 Role objects
    roleBindings,        \* rbac/v1 RoleBinding objects
    clusterRoles,        \* rbac/v1 ClusterRole objects
    clusterRoleBindings, \* rbac/v1 ClusterRoleBinding objects
    namespaces,          \* names of the existing namespaces
    run,                 \* the RunTTL invocation in progress
    ret,                 \* what the last finished operation returned
    ops                  \* number of operations started

clusterVars == <<cronjobs, jobs, pods, serviceAccounts, roles, roleBindings,
                 clusterRoles, clusterRoleBindings, namespaces>>
vars == <<cronjobs, jobs, pods, serviceAccounts, roles, roleBindings,
          clusterRoles, clusterRoleBindings, namespaces, run, ret, ops>>

\* The object store as one value, for the operations that thread it through
\* a sequence of API calls.
Cluster ==
    [cronjobs |-> cronjobs, jobs |-> jobs, pods |-> pods,
     serviceAccounts |-> serviceAccounts, roles |-> roles,
     roleBindings |-> roleBindings, clusterRoles |-> clusterRoles,
     clusterRoleBindings |-> clusterRoleBindings, namespaces |-> namespaces]

SetCluster(c) ==
    /\ cronjobs' = c.cronjobs
    /\ jobs' = c.jobs
    /\ pods' = c.pods
    /\ serviceAccounts' = c.serviceAccounts
    /\ roles' = c.roles
    /\ roleBindings' = c.roleBindings
    /\ clusterRoles' = c.clusterRoles
    /\ clusterRoleBindings' = c.clusterRoleBindings
    /\ namespaces' = c.namespaces

(***************************************************************************)
(* The API server's store: objects are keyed by (namespace, name);         *)
(* cluster-scoped objects have namespace "".                               *)
(***************************************************************************)
ServerUID == "uid-assigned"

Has(S, ns, name) == \E o \in S : o.namespace = ns /\ o.name = name
Obj(S, ns, name) == CHOOSE o \in S : o.namespace = ns /\ o.name = name
Del(S, ns, name) == {o \in S : ~(o.namespace = ns /\ o.name = name)}
\* Create stores the object with the metadata the server assigns.
Created(S, o) == S \cup {[o EXCEPT !.uid = ServerUID]}
\* Update replaces the stored object of the same key by the one submitted.
Updated_keepOld(S, o) == S \cup {o}

Updated(S, o) == Del(S, o.namespace, o.name) \cup {o}

(***************************************************************************)
(* Identity & schedule codec                                               *)
(***************************************************************************)
ResourceNameOf_releaseOnly(releaseName, releaseNamespace) ==
    releaseName \o "-ttl"

ResourceNameOf(releaseName, releaseNamespace) ==
    releaseName \o "-" \o releaseNamespace \o "-ttl"

ResourceName_noLimit(releaseName, releaseNamespace) ==
    [name |-> ResourceNameOf(releaseName, releaseNamespace), err |-> Nil]

ResourceName(releaseName, releaseNamespace) ==
    LET name == ResourceNameOf(releaseName, releaseNamespace)
    IN IF Len(name) > maxResourceNameLen
       THEN [name |-> "", err |-> "NameTooLong"]
       ELSE [name |-> name, err |-> Nil]

\* The longest offset a 5-field schedule without a year can express.
MaxTTLMinutes == 335 * 24 * 60

UnitMinutes(unit) ==
    CASE unit = "m" -> 1
      [] unit = "h" -> 60
      [] unit = "d" -> 24 * 60
      [] OTHER -> 0

ParseTimeInput_noMaximum(d, now) ==
    IF d.n <= 0 THEN [t |-> 0, err |-> "positive"]
    ELSE [t |-> now + d.n * UnitMinutes(d.unit), err |-> Nil]

ParseTimeInput(d, now) ==
    IF d.unit \notin {"m", "h", "d"}
    THEN [t |-> 0, err |-> "unparseable"]
    ELSE LET off == d.n * UnitMinutes(d.unit)
         IN IF off <= 0 THEN [t |-> 0, err |-> "positive"]
            ELSE IF off > MaxTTLMinutes THEN [t |-> 0, err |-> "maximum"]
            ELSE [t |-> now + off, err |-> Nil]

DaysInMonth == <<31, 28, 31, 30, 31, 30, 31, 31, 30, 31, 30, 31>>

RECURSIVE MonthDay(_, _)
\* Month and day of month of the 0-based day of year doy, counting from month m.
MonthDay(doy, m) ==
    IF doy < DaysInMonth[m]
    THEN [month |-> m, day |-> doy + 1]
    ELSE MonthDay(doy - DaysInMonth[m], m + 1)

TimeToCronSchedule_hourFirst(t) ==
    LET md == MonthDay((t \div 1440) % 365, 1)
    IN <<ToString((t \div 60) % 24), ToString(t % 60),
         ToString(md.day), ToString(md.month), "*">>

\* "minute hour day month *", as its five space-separated fields.
TimeToCronSchedule(t) ==
    LET md == MonthDay((t \div 1440) % 365, 1)
    IN <<ToString(t % 60), ToString((t \div 60) % 24),
         ToString(md.day), ToString(md.month), "*">>

(***************************************************************************)
(* Task template builder                                                   *)
(***************************************************************************)
CronJobLabels_withoutDeleteNamespace(opts) ==
    (LabelManagedBy :> LabelManagedByValue)
    @@ (LabelRelease :> opts.ReleaseName)
    @@ (LabelReleaseNamespace :> opts.ReleaseNamespace)
    @@ (LabelCronjobNamespace :> opts.CronjobNamespace)

CronJobLabels(opts) ==
    (LabelManagedBy :> LabelManagedByValue)
    @@ (LabelRelease :> opts.ReleaseName)
    @@ (LabelReleaseNamespace :> opts.ReleaseNamespace)
    @@ (LabelCronjobNamespace :> opts.CronjobNamespace)
    @@ (LabelDeleteNamespace :> (IF opts.DeleteNamespace THEN "true" ELSE "false"))

BuildCronJob(opts) ==
    IF opts.DeleteNamespace /\ opts.ReleaseNamespace = opts.CronjobNamespace
    THEN [cj |-> Nil, err |-> "NamespaceConflict"]
    ELSE
    LET rn == ResourceName(opts.ReleaseName, opts.ReleaseNamespace)
        helmImage == IF opts.HelmImage = "" THEN DefaultHelmImage ELSE opts.HelmImage
        kubectlImage == IF opts.KubectlImage = "" THEN DefaultKubectlImage
                        ELSE opts.KubectlImage
        labels == CronJobLabels(opts)
        helmUninstall ==
            [name |-> "helm-uninstall", image |-> helmImage,
             command |-> <<"helm", "uninstall", opts.ReleaseName,
                           "--namespace", opts.ReleaseNamespace>>]
        deleteNs ==
            [name |-> "delete-namespace", image |-> kubectlImage,
             command |-> <<"kubectl", "delete", "namespace", opts.ReleaseNamespace>>]
        selfCleanup ==
            [name |-> "self-cleanup", image |-> kubectlImage,
             command |-> <<"kubectl", "delete", "cronjob", rn.name,
                           "--namespace", opts.CronjobNamespace>>]
        initContainers == IF opts.DeleteNamespace
                          THEN <<helmUninstall, deleteNs>>
                          ELSE <<helmUninstall>>
    IN IF rn.err # Nil THEN [cj |-> Nil, err |-> rn.err]
       ELSE [cj |->
               [name |-> rn.name,
                namespace |-> opts.CronjobNamespace,
                labels |-> labels,
                annotations |-> {},
                uid |-> "",
                spec |->
                  [schedule |-> opts.Schedule,
                   concurrencyPolicy |-> "Forbid",
                   failedJobsHistoryLimit |-> 0,
                   successfulJobsHistoryLimit |-> 1,
                   jobTemplate |->
                     [labels |-> labels,
                      spec |->
                        [backoffLimit |-> 0,
                         template |->
                           [labels |-> labels,
                            spec |->
                              [serviceAccountName |-> opts.ServiceAccount,
                               restartPolicy |-> "Never",
                               initContainers |-> initContainers,
                               containers |-> <<selfCleanup>>]]]]]],
             err |-> Nil]

BuildJobFromCronJob(cj, jobName) ==
    [name |-> jobName,
     namespace |-> cj.namespace,
     labels |-> (LabelTriggeredBy :> "run") @@ cj.labels,
     uid |-> "",
     spec |-> cj.spec.jobTemplate.spec]

(***************************************************************************)
(* Access provisioner                                                      *)
(***************************************************************************)
resourceLabels(releaseName, releaseNamespace) ==
    (LabelManagedBy :> LabelManagedByValue)
    @@ (LabelRelease :> releaseName)
    @@ (LabelReleaseNamespace :> releaseNamespace)

SecretsRule == [apiGroups |-> <<"">>, resources |-> <<"secrets">>,
                verbs |-> <<"get", "list", "delete">>]
CronjobsRule == [apiGroups |-> <<"batch">>, resources |-> <<"cronjobs">>,
                 verbs |-> <<"get", "delete">>]
NamespacesRule == [apiGroups |-> <<"">>, resources |-> <<"namespaces">>,
                   verbs |-> <<"get", "delete">>]

Subject(serviceAccountName, ns) ==
    [kind |-> "ServiceAccount", name |-> serviceAccountName, namespace |-> ns]
RoleRef(kind, name) ==
    [apiGroup |-> "rbac.authorization.k8s.io", kind |-> kind, name |-> name]

\* An injected failure of an API call: of every call of that kind, or of
\* the calls of that kind in one namespace.
CallFails(fault, call, ns) ==
    call \in fault \/ (call \o "/" \o ns) \in fault

\* A step of a sequence of API calls: the first error ends the sequence.
Step(st, next) == IF st.err # Nil THEN st ELSE next

createOrUpdateServiceAccount_createOnly(c, sa, fault) ==
    IF "create serviceaccounts" \in fault THEN [c |-> c, err |-> "Error"]
    ELSE IF ~Has(c.serviceAccounts, sa.namespace, sa.name)
    THEN [c |-> [c EXCEPT !.serviceAccounts = Created(@, sa)], err |-> Nil]
    ELSE [c |-> c, err |-> "AlreadyExists"]

createOrUpdateServiceAccount(c, sa, fault) ==
    IF "create serviceaccounts" \in fault THEN [c |-> c, err |-> "Error"]
    ELSE IF ~Has(c.serviceAccounts, sa.namespace, sa.name)
    THEN [c |-> [c EXCEPT !.serviceAccounts = Created(@, sa)], err |-> Nil]
    ELSE IF "get serviceaccounts" \in fault THEN [c |-> c, err |-> "Error"]
    ELSE LET existing == Obj(c.serviceAccounts, sa.namespace, sa.name)
             upd == [existing EXCEPT !.labels = sa.labels]
         IN IF "update serviceaccounts" \in fault THEN [c |-> c, err |-> "Error"]
            ELSE [c |-> [c EXCEPT !.serviceAccounts = Updated(@, upd)], err |-> Nil]

createOrUpdateRole_createOnly(c, role, fault) ==
    IF CallFails(fault, "create roles", role.namespace) THEN [c |-> c, err |-> "Error"]
    ELSE IF ~Has(c.roles, role.namespace, role.name)
    THEN [c |-> [c EXCEPT !.roles = Created(@, role)], err |-> Nil]
    ELSE [c |-> c, err |-> "AlreadyExists"]

createOrUpdateRole(c, role, fault) ==
    IF CallFails(fault, "create roles", role.namespace) THEN [c |-> c, err |-> "Error"]
    ELSE IF ~Has(c.roles, role.namespace, role.name)
    THEN [c |-> [c EXCEPT !.roles = Created(@, role)], err |-> Nil]
    ELSE IF "get roles" \in fault THEN [c |-> c, err |-> "Error"]
    ELSE LET existing == Obj(c.roles, role.namespace, role.name)
             upd == [existing EXCEPT !.labels = role.labels, !.rules = role.rules]
         IN IF "update roles" \in fault THEN [c |-> c, err |-> "Error"]
            ELSE [c |-> [c EXCEPT !.roles = Updated(@, upd)], err |-> Nil]

createOrUpdateRoleBinding_keepSubjects(c, binding, fault) ==
    IF CallFails(fault, "create rolebindings", binding.namespace) THEN [c |-> c, err |-> "Error"]
    ELSE IF ~Has(c.roleBindings, binding.namespace, binding.name)
    THEN [c |-> [c EXCEPT !.roleBindings = Created(@, binding)], err |-> Nil]
    ELSE IF "get rolebindings" \in fault THEN [c |-> c, err |-> "Error"]
    ELSE LET existing == Obj(c.roleBindings, binding.namespace, binding.name)
             upd == [existing EXCEPT !.labels = binding.labels]
         IN IF "update rolebindings" \in fault THEN [c |-> c, err |-> "Error"]
            ELSE [c |-> [c EXCEPT !.roleBindings = Updated(@, upd)], err |-> Nil]

createOrUpdateRoleBinding(c, binding, fault) ==
    IF CallFails(fault, "create rolebindings", binding.namespace) THEN [c |-> c, err |-> "Error"]
    ELSE IF ~Has(c.roleBindings, binding.namespace, binding.name)
    THEN [c |-> [c EXCEPT !.roleBindings = Created(@, binding)], err |-> Nil]
    ELSE IF "get rolebindings" \in fault THEN [c |-> c, err |-> "Error"]
    ELSE LET existing == Obj(c.roleBindings, binding.namespace, binding.name)
             upd == [existing EXCEPT !.labels = binding.labels,
                                     !.subjects = binding.subjects,
                                     !.roleRef = binding.roleRef]
         IN IF "update rolebindings" \in fault THEN [c |-> c, err |-> "Error"]
            ELSE [c |-> [c EXCEPT !.roleBindings = Updated(@, upd)], err |-> Nil]

createOrUpdateClusterRole(c, role, fault) ==
    IF "create clusterroles" \in fault THEN [c |-> c, err |-> "Error"]
    ELSE IF ~Has(c.clusterRoles, "", role.name)
    THEN [c |-> [c EXCEPT !.clusterRoles = Created(@, role)], err |-> Nil]
    ELSE IF "get clusterroles" \in fault THEN [c |-> c, err |-> "Error"]
    ELSE LET existing == Obj(c.clusterRoles, "", role.name)
             upd == [existing EXCEPT !.labels = role.labels, !.rules = role.rules]
         IN IF "update clusterroles" \in fault THEN [c |-> c, err |-> "Error"]
            ELSE [c |-> [c EXCEPT !.clusterRoles = Updated(@, upd)], err |-> Nil]

createOrUpdateClusterRoleBinding(c, binding, fault) ==
    IF "create clusterrolebindings" \in fault THEN [c |-> c, err |-> "Error"]
    ELSE IF ~Has(c.clusterRoleBindings, "", binding.name)
    THEN [c |-> [c EXCEPT !.clusterRoleBindings = Created(@, binding)], err |-> Nil]
    ELSE IF "get clusterrolebindings" \in fault THEN [c |-> c, err |-> "Error"]
    ELSE LET existing == Obj(c.clusterRoleBindings, "", binding.name)
             upd == [existing EXCEPT !.labels = binding.labels,
                                     !.subjects = binding.subjects,
                                     !.roleRef = binding.roleRef]
         IN IF "update clusterrolebindings" \in fault THEN [c |-> c, err |-> "Error"]
            ELSE [c |-> [c EXCEPT !.clusterRoleBindings = Updated(@, upd)],
                  err |-> Nil]

createSameNamespaceRBAC_bindingFirst(c, name, serviceAccountName, namespace, labels, fault) ==
    LET role == [name |-> name, namespace |-> namespace, labels |-> labels,
                 uid |-> "", rules |-> <<SecretsRule, CronjobsRule>>]
        binding == [name |-> name, namespace |-> namespace, labels |-> labels,
                    uid |-> "",
                    subjects |-> <<Subject(serviceAccountName, namespace)>>,
                    roleRef |-> RoleRef("Role", name)]
        s1 == createOrUpdateRoleBinding(c, binding, fault)
    IN Step(s1, createOrUpdateRole(s1.c, role, fault))

createSameNamespaceRBAC(c, name, serviceAccountName, namespace, labels, fault) ==
    LET role == [name |-> name, namespace |-> namespace, labels |-> labels,
                 uid |-> "", rules |-> <<SecretsRule, CronjobsRule>>]
        binding == [name |-> name, namespace |-> namespace, labels |-> labels,
                    uid |-> "",
                    subjects |-> <<Subject(serviceAccountName, namespace)>>,
                    roleRef |-> RoleRef("Role", name)]
        s1 == createOrUpdateRole(c, role, fault)
    IN Step(s1, createOrUpdateRoleBinding(s1.c, binding, fault))

createCrossNamespaceRBAC_fullReleaseRole(c, name, serviceAccountName, releaseNamespace, cronjobNamespace, labels, fault) ==
    LET releaseRole == [name |-> name, namespace |-> releaseNamespace,
                        labels |-> labels, uid |-> "",
                        rules |-> <<SecretsRule, CronjobsRule>>]
        releaseBinding == [name |-> name, namespace |-> releaseNamespace,
                           labels |-> labels, uid |-> "",
                           subjects |-> <<Subject(serviceAccountName,
                                                  cronjobNamespace)>>,
                           roleRef |-> RoleRef("Role", name)]
        s1 == createOrUpdateRole(c, releaseRole, fault)
    IN Step(s1, createOrUpdateRoleBinding(s1.c, releaseBinding, fault))

createCrossNamespaceRBAC(c, name, serviceAccountName, releaseNamespace, cronjobNamespace, labels, fault) ==
    LET releaseRole == [name |-> name, namespace |-> releaseNamespace,
                        labels |-> labels, uid |-> "",
                        rules |-> <<SecretsRule>>]
        releaseBinding == [name |-> name, namespace |-> releaseNamespace,
                           labels |-> labels, uid |-> "",
                           subjects |-> <<Subject(serviceAccountName,
                                                  cronjobNamespace)>>,
                           roleRef |-> RoleRef("Role", name)]
        cronjobRole == [name |-> name, namespace |-> cronjobNamespace,
                        labels |-> labels, uid |-> "",
                        rules |-> <<CronjobsRule>>]
        cronjobBinding == [name |-> name, namespace |-> cronjobNamespace,
                           labels |-> labels, uid |-> "",
                           subjects |-> <<Subject(serviceAccountName,
                                                  cronjobNamespace)>>,
                           roleRef |-> RoleRef("Role", name)]
        s1 == createOrUpdateRole(c, releaseRole, fault)
        s2 == Step(s1, createOrUpdateRoleBinding(s1.c, releaseBinding, fault))
        s3 == Step(s2, createOrUpdateRole(s2.c, cronjobRole, fault))
    IN Step(s3, createOrUpdateRoleBinding(s3.c, cronjobBinding, fault))

createDeleteNamespaceRBAC(c, name, serviceAccountName, cronjobNamespace, labels, fault) ==
    LET clusterRole == [name |-> name, namespace |-> "", labels |-> labels,
                        uid |-> "", rules |-> <<NamespacesRule>>]
        clusterBinding == [name |-> name, namespace |-> "", labels |-> labels,
                           uid |-> "",
                           subjects |-> <<Subject(serviceAccountName,
                                                  cronjobNamespace)>>,
                           roleRef |-> RoleRef("ClusterRole", name)]
        s1 == createOrUpdateClusterRole(c, clusterRole, fault)
    IN Step(s1, createOrUpdateClusterRoleBinding(s1.c, clusterBinding, fault))

CreateServiceAccountAndRBAC_noConflictCheck(c, releaseName, releaseNamespace, cronjobNamespace, serviceAccountName, deleteNamespace, fault) ==
    LET rn == ResourceName(releaseName, releaseNamespace)
        labels == resourceLabels(releaseName, releaseNamespace)
        sa == [name |-> serviceAccountName, namespace |-> cronjobNamespace,
               labels |-> labels, uid |-> ""]
        s1 == createOrUpdateServiceAccount(c, sa, fault)
    IN IF rn.err # Nil THEN [c |-> c, err |-> rn.err]
       ELSE IF s1.err # Nil THEN s1
       ELSE IF releaseNamespace = cronjobNamespace
       THEN createSameNamespaceRBAC(s1.c, rn.name, serviceAccountName,
                                    releaseNamespace, labels, fault)
       ELSE LET s2 == createCrossNamespaceRBAC(s1.c, rn.name, serviceAccountName,
                                               releaseNamespace, cronjobNamespace,
                                               labels, fault)
            IN IF s2.err # Nil THEN s2
               ELSE IF deleteNamespace
               THEN createDeleteNamespaceRBAC(s2.c, rn.name, serviceAccountName,
                                              cronjobNamespace, labels, fault)
               ELSE s2

CreateServiceAccountAndRBAC(c, releaseName, releaseNamespace, cronjobNamespace, serviceAccountName, deleteNamespace, fault) ==
    IF deleteNamespace /\ releaseNamespace = cronjobNamespace
    THEN [c |-> c, err |-> "NamespaceConflict"]
    ELSE
    LET rn == ResourceName(releaseName, releaseNamespace)
        labels == resourceLabels(releaseName, releaseNamespace)
        sa == [name |-> serviceAccountName, namespace |-> cronjobNamespace,
               labels |-> labels, uid |-> ""]
        s1 == createOrUpdateServiceAccount(c, sa, fault)
    IN IF rn.err # Nil THEN [c |-> c, err |-> rn.err]
       ELSE IF s1.err # Nil THEN s1
       ELSE IF releaseNamespace = cronjobNamespace
       THEN createSameNamespaceRBAC(s1.c, rn.name, serviceAccountName,
                                    releaseNamespace, labels, fault)
       ELSE LET s2 == createCrossNamespaceRBAC(s1.c, rn.name, serviceAccountName,
                                               releaseNamespace, cronjobNamespace,
                                               labels, fault)
            IN IF s2.err # Nil THEN s2
               ELSE IF deleteNamespace
               THEN createDeleteNamespaceRBAC(s2.c, rn.name, serviceAccountName,
                                              cronjobNamespace, labels, fault)
               ELSE s2

deleteNamespacedRBAC_notFoundFails(c, name, namespace, fault) ==
    IF "delete rolebindings" \in fault \/ ~Has(c.roleBindings, namespace, name)
    THEN [c |-> c, err |-> "Error"]
    ELSE LET c1 == [c EXCEPT !.roleBindings = Del(@, namespace, name)]
         IN IF "delete roles" \in fault \/ ~Has(c.roles, namespace, name)
            THEN [c |-> c1, err |-> "Error"]
            ELSE [c |-> [c1 EXCEPT !.roles = Del(@, namespace, name)],
                  err |-> Nil]

deleteNamespacedRBAC(c, name, namespace, fault) ==
    IF "delete rolebindings" \in fault THEN [c |-> c, err |-> "Error"]
    ELSE LET c1 == [c EXCEPT !.roleBindings = Del(@, namespace, name)]
         IN IF "delete roles" \in fault THEN [c |-> c1, err |-> "Error"]
            ELSE [c |-> [c1 EXCEPT !.roles = Del(@, namespace, name)],
                  err |-> Nil]

CleanupRBAC(c, releaseName, releaseNamespace, cronjobNamespace, fault) ==
    LET rn == ResourceName(releaseName, releaseNamespace)
        s1 == IF "delete clusterrolebindings" \in fault
              THEN [c |-> c, err |-> "Error"]
              ELSE [c |-> [c EXCEPT !.clusterRoleBindings = Del(@, "", rn.name)],
                    err |-> Nil]
        s2 == Step(s1, IF "delete clusterroles" \in fault
                       THEN [c |-> s1.c, err |-> "Error"]
                       ELSE [c |-> [s1.c EXCEPT !.clusterRoles = Del(@, "", rn.name)],
                             err |-> Nil])
        s3 == Step(s2, deleteNamespacedRBAC(s2.c, rn.name, releaseNamespace, fault))
        s4 == Step(s3, IF cronjobNamespace # releaseNamespace
                       THEN deleteNamespacedRBAC(s3.c, rn.name, cronjobNamespace,
                                                 fault)
                       ELSE s3)
    IN IF rn.err # Nil THEN [c |-> c, err |-> rn.err]
       ELSE Step(s4, IF "delete serviceaccounts" \in fault
                     THEN [c |-> s4.c, err |-> "Error"]
                     ELSE [c |-> [s4.c EXCEPT !.serviceAccounts =
                                       Del(@, cronjobNamespace, rn.name)],
                           err |-> Nil])

\* The value of a label, "" when the object does not carry it.
LabelOf(labels, key) == IF key \in DOMAIN labels THEN labels[key] ELSE ""

\* Object and namespace names in the order the API server lists them.
SortedNames == <<"default", "ghost-staging-ttl", "myapp-staging-ttl", "ttl-sa">>
SortedNamespaces == <<"ops", "staging">>

\* The objects of S in namespace ns that carry the managed-by label, in list
\* order.
ListManaged(S, ns) ==
    LET names == SelectSeq(SortedNames, LAMBDA n :
                     \E o \in S : /\ o.namespace = ns
                                  /\ o.name = n
                                  /\ LabelOf(o.labels, LabelManagedBy)
                                        = LabelManagedByValue)
    IN [i \in 1..Len(names) |-> Obj(S, ns, names[i])]

\* isOrphaned: the CronJob the labels point to is reported as not found.
isOrphaned_anyLookupError(c, labels, fault) ==
    LET releaseName == LabelOf(labels, LabelRelease)
        releaseNs == LabelOf(labels, LabelReleaseNamespace)
        cronjobNs == IF LabelOf(labels, LabelCronjobNamespace) = ""
                     THEN releaseNs
                     ELSE LabelOf(labels, LabelCronjobNamespace)
        rn == ResourceName(releaseName, releaseNs)
    IN IF rn.err # Nil THEN FALSE
       ELSE IF "get cronjobs" \in fault THEN TRUE
       ELSE ~Has(c.cronjobs, cronjobNs, rn.name)

isOrphaned_always(c, labels, fault) == TRUE

isOrphaned(c, labels, fault) ==
    LET releaseName == LabelOf(labels, LabelRelease)
        releaseNs == LabelOf(labels, LabelReleaseNamespace)
        cronjobNs == IF LabelOf(labels, LabelCronjobNamespace) = ""
                     THEN releaseNs
                     ELSE LabelOf(labels, LabelCronjobNamespace)
        rn == ResourceName(releaseName, releaseNs)
    IN IF rn.err # Nil THEN FALSE
       ELSE IF "get cronjobs" \in fault THEN FALSE
       ELSE ~Has(c.cronjobs, cronjobNs, rn.name)

\* The collection and the API resource of a kind of bundle object.
KindField(kind) ==
    CASE kind = "ClusterRoleBinding" -> "clusterRoleBindings"
      [] kind = "ClusterRole" -> "clusterRoles"
      [] kind = "RoleBinding" -> "roleBindings"
      [] kind = "Role" -> "roles"
      [] kind = "ServiceAccount" -> "serviceAccounts"

KindResource(kind) ==
    CASE kind = "ClusterRoleBinding" -> "clusterrolebindings"
      [] kind = "ClusterRole" -> "clusterroles"
      [] kind = "RoleBinding" -> "rolebindings"
      [] kind = "Role" -> "roles"
      [] kind = "ServiceAccount" -> "serviceaccounts"

RECURSIVE SweepItems(_, _, _, _, _, _)
\* One "for _, item := range list.Items" loop of CleanupOrphaned, from item i.
SweepItems(st, kind, items, i, dryRun, fault) ==
    IF st.err # Nil \/ i > Len(items) THEN st
    ELSE LET item == items[i]
             found == [st EXCEPT !.orphaned =
                         Append(@, [Kind |-> kind, Name |-> item.name,
                                    Namespace |-> item.namespace])]
         IN IF ~isOrphaned(st.c, item.labels, fault)
            THEN SweepItems(st, kind, items, i + 1, dryRun, fault)
            ELSE IF dryRun
            THEN SweepItems(found, kind, items, i + 1, dryRun, fault)
            ELSE IF ("delete " \o KindResource(kind)) \in fault
            THEN [found EXCEPT !.err = "DeleteFailed"]
            ELSE SweepItems([found EXCEPT !.c[KindField(kind)] =
                                Del(@, item.namespace, item.name)],
                            kind, items, i + 1, dryRun, fault)

\* List the managed objects of one kind in ns and sweep them.
SweepKind_ignoreDryRun(st, kind, ns, dryRun, fault) ==
    IF st.err # Nil THEN st
    ELSE IF ("list " \o KindResource(kind)) \in fault
    THEN [c |-> st.c, err |-> "ListFailed", orphaned |-> <<>>]
    ELSE SweepItems(st, kind, ListManaged(st.c[KindField(kind)], ns), 1,
                    FALSE, fault)

SweepKind(st, kind, ns, dryRun, fault) ==
    IF st.err # Nil THEN st
    ELSE IF ("list " \o KindResource(kind)) \in fault
    THEN [c |-> st.c, err |-> "ListFailed", orphaned |-> <<>>]
    ELSE SweepItems(st, kind, ListManaged(st.c[KindField(kind)], ns), 1,
                    dryRun, fault)

RECURSIVE SweepNamespaces(_, _, _, _, _)
\* The "for _, ns := range namespaces" loop of CleanupOrphaned, from i.
SweepNamespaces(st, nsList, i, dryRun, fault) ==
    IF st.err # Nil \/ i > Len(nsList) THEN st
    ELSE LET s1 == SweepKind(st, "RoleBinding", nsList[i], dryRun, fault)
             s2 == SweepKind(s1, "Role", nsList[i], dryRun, fault)
             s3 == SweepKind(s2, "ServiceAccount", nsList[i], dryRun, fault)
         IN SweepNamespaces(s3, nsList, i + 1, dryRun, fault)

CleanupOrphaned_listOnlyInDryRun(c, nsList, allNamespaces, dryRun, fault) ==
    LET selected == IF allNamespaces
                    THEN SelectSeq(SortedNamespaces,
                                   LAMBDA ns : ns \in c.namespaces)
                    ELSE nsList
        s0 == [c |-> c, err |-> Nil, orphaned |-> <<>>]
        s1 == SweepKind(s0, "ClusterRoleBinding", "", dryRun, fault)
        s2 == SweepKind(s1, "ClusterRole", "", dryRun, fault)
        s3 == SweepNamespaces(s2, selected, 1, dryRun, fault)
    IN IF allNamespaces /\ "list namespaces" \in fault
       THEN [s0 EXCEPT !.err = "ListFailed"]
       ELSE IF dryRun THEN s3 ELSE [s3 EXCEPT !.orphaned = <<>>]

CleanupOrphaned(c, nsList, allNamespaces, dryRun, fault) ==
    LET selected == IF allNamespaces
                    THEN SelectSeq(SortedNamespaces,
                                   LAMBDA ns : ns \in c.namespaces)
                    ELSE nsList
        s0 == [c |-> c, err |-> Nil, orphaned |-> <<>>]
        s1 == SweepKind(s0, "ClusterRoleBinding", "", dryRun, fault)
        s2 == SweepKind(s1, "ClusterRole", "", dryRun, fault)
    IN IF allNamespaces /\ "list namespaces" \in fault
       THEN [s0 EXCEPT !.err = "ListFailed"]
       ELSE SweepNamespaces(s2, selected, 1, dryRun, fault)

(***************************************************************************)
(* Lifecycle manager                                                       *)
(***************************************************************************)
NilResult ==
    [nil |-> TRUE, ReleaseName |-> "", ReleaseNamespace |-> "",
     DeletedNamespace |-> FALSE, JobFailed |-> FALSE, ContainerResults |-> <<>>]

NilInfo ==
    [nil |-> TRUE, ReleaseName |-> "", ReleaseNamespace |-> "",
     CronjobNamespace |-> "", CronSchedule |-> <<>>, DeleteNamespace |-> FALSE]

\* The options of an operation that takes only the release and the namespaces.
RefOptions(releaseName, releaseNamespace, cronjobNamespace) ==
    [ReleaseName |-> releaseName, ReleaseNamespace |-> releaseNamespace,
     CronjobNamespace |-> cronjobNamespace, Duration |-> [n |-> 0, unit |-> ""],
     ServiceAccount |-> "", CreateServiceAccount |-> FALSE, HelmImage |-> "",
     KubectlImage |-> "", DeleteNamespace |-> FALSE]

\* The operation that returned last: what it was called for, whether the
\* CronJob it names existed when it was called, and what it returned.
Returned(op, opts, existed, err, result, info) ==
    [op |-> op, ReleaseName |-> opts.ReleaseName,
     ReleaseNamespace |-> opts.ReleaseNamespace,
     CronjobNamespace |-> opts.CronjobNamespace, Duration |-> opts.Duration,
     existed |-> existed, err |-> err, result |-> result, info |-> info]

\* Whether the CronJob of the release is stored in cronjobNamespace.
Existed(c, releaseName, releaseNamespace, cronjobNamespace) ==
    Has(c.cronjobs, cronjobNamespace,
        ResourceNameOf(releaseName, releaseNamespace))

NotTerminated == -1

IdleRun ==
    [pc |-> "idle", ReleaseName |-> "", ReleaseNamespace |-> "",
     CronjobNamespace |-> "", jobName |-> "", jobCreated |-> FALSE,
     deleteNamespace |-> FALSE, ctxDone |-> FALSE, podName |-> "",
     allContainers |-> <<>>, result |-> NilResult, runErr |-> Nil,
     fault |-> {}, calls |-> {}, log |-> <<>>]

Idle == run.pc \in {"idle", "done"}

\* The service account the CronJob runs as.
SetTTLServiceAccount(opts, resourceName) ==
    IF opts.CreateServiceAccount /\ opts.ServiceAccount = "default"
    THEN resourceName ELSE opts.ServiceAccount

\* SetTTL: create the access bundle, or check that the service account exists.
SetTTLProvision_noCheck(c, opts, saName, fault) ==
    IF opts.CreateServiceAccount
    THEN LET p == CreateServiceAccountAndRBAC(c, opts.ReleaseName,
                      opts.ReleaseNamespace, opts.CronjobNamespace,
                      saName, opts.DeleteNamespace, fault)
         IN [c |-> p.c, err |-> IF p.err # Nil THEN "ProvisionFailed" ELSE Nil]
    ELSE [c |-> c, err |-> Nil]

SetTTLProvision(c, opts, saName, fault) ==
    IF opts.CreateServiceAccount
    THEN LET p == CreateServiceAccountAndRBAC(c, opts.ReleaseName,
                      opts.ReleaseNamespace, opts.CronjobNamespace,
                      saName, opts.DeleteNamespace, fault)
         IN [c |-> p.c, err |-> IF p.err # Nil THEN "ProvisionFailed" ELSE Nil]
    ELSE IF "get serviceaccounts" \in fault
    THEN [c |-> c, err |-> "ServiceAccountCheckFailed"]
    ELSE IF ~Has(c.serviceAccounts, opts.CronjobNamespace, saName)
    THEN [c |-> c, err |-> "ServiceAccountNotFound"]
    ELSE [c |-> c, err |-> Nil]

\* The object SetTTL submits in place of an existing CronJob.
UpdatedCronJob_replaceObject(existing, cj) == cj

UpdatedCronJob(existing, cj) ==
    [existing EXCEPT !.spec = cj.spec, !.labels = cj.labels]

\* SetTTL: build the CronJob and create it or update the stored one.
SetTTLStore_createOnly(c, opts, schedule, saName, resourceName, fault) ==
    LET built == BuildCronJob([ReleaseName |-> opts.ReleaseName,
                               ReleaseNamespace |-> opts.ReleaseNamespace,
                               CronjobNamespace |-> opts.CronjobNamespace,
                               Schedule |-> schedule,
                               ServiceAccount |-> saName,
                               HelmImage |-> opts.HelmImage,
                               KubectlImage |-> opts.KubectlImage,
                               DeleteNamespace |-> opts.DeleteNamespace])
    IN IF built.err # Nil THEN [c |-> c, err |-> "BuildFailed"]
       ELSE IF "get cronjobs" \in fault
       THEN [c |-> c, err |-> "CheckCronJobFailed"]
       ELSE IF Has(c.cronjobs, opts.CronjobNamespace, resourceName)
       THEN [c |-> c, err |-> "CreateCronJobFailed"]
       ELSE IF "create cronjobs" \in fault
       THEN [c |-> c, err |-> "CreateCronJobFailed"]
       ELSE [c |-> [c EXCEPT !.cronjobs = Created(@, built.cj)], err |-> Nil]

SetTTLStore(c, opts, schedule, saName, resourceName, fault) ==
    LET built == BuildCronJob([ReleaseName |-> opts.ReleaseName,
                               ReleaseNamespace |-> opts.ReleaseNamespace,
                               CronjobNamespace |-> opts.CronjobNamespace,
                               Schedule |-> schedule,
                               ServiceAccount |-> saName,
                               HelmImage |-> opts.HelmImage,
                               KubectlImage |-> opts.KubectlImage,
                               DeleteNamespace |-> opts.DeleteNamespace])
    IN IF built.err # Nil THEN [c |-> c, err |-> "BuildFailed"]
       ELSE IF "get cronjobs" \in fault
       THEN [c |-> c, err |-> "CheckCronJobFailed"]
       ELSE IF ~Has(c.cronjobs, opts.CronjobNamespace, resourceName)
       THEN IF "create cronjobs" \in fault
            THEN [c |-> c, err |-> "CreateCronJobFailed"]
            ELSE [c |-> [c EXCEPT !.cronjobs = Created(@, built.cj)],
                  err |-> Nil]
       ELSE IF "update cronjobs" \in fault
            THEN [c |-> c, err |-> "UpdateCronJobFailed"]
            ELSE [c |-> [c EXCEPT !.cronjobs =
                           Updated(@, UpdatedCronJob(
                               Obj(c.cronjobs, opts.CronjobNamespace,
                                   resourceName), built.cj))],
                  err |-> Nil]

\* SetTTL from the release check to the return: the store it leaves and the
\* error it returns.
SetTTLOutcome_provisionFirst(c, opts, fault) ==
    LET rn == ResourceName(opts.ReleaseName, opts.ReleaseNamespace)
        saName == SetTTLServiceAccount(opts, rn.name)
        s1 == IF rn.err # Nil \/ (opts.DeleteNamespace
                                  /\ opts.ReleaseNamespace = opts.CronjobNamespace)
              THEN [c |-> c, err |-> Nil]
              ELSE [c |-> SetTTLProvision(c, opts, saName, fault).c, err |-> Nil]
        parsed == ParseTimeInput(opts.Duration, Now)
    IN IF opts.ReleaseName \notin StoredReleases
       THEN [c |-> s1.c, err |-> "ReleaseNotFound"]
       ELSE IF opts.DeleteNamespace /\ opts.ReleaseNamespace = opts.CronjobNamespace
       THEN [c |-> s1.c, err |-> "NamespaceConflict"]
       ELSE IF parsed.err # Nil THEN [c |-> s1.c, err |-> "InvalidDuration"]
       ELSE IF rn.err # Nil THEN [c |-> s1.c, err |-> rn.err]
       ELSE LET s2 == SetTTLProvision(c, opts, saName, fault)
            IN Step(s2, SetTTLStore(s2.c, opts, TimeToCronSchedule(parsed.t),
                                    saName, rn.name, fault))

SetTTLOutcome(c, opts, fault) ==
    IF opts.ReleaseName \notin StoredReleases
    THEN [c |-> c, err |-> "ReleaseNotFound"]
    ELSE IF opts.DeleteNamespace /\ opts.ReleaseNamespace = opts.CronjobNamespace
    THEN [c |-> c, err |-> "NamespaceConflict"]
    ELSE
    LET parsed == ParseTimeInput(opts.Duration, Now)
        schedule == TimeToCronSchedule(parsed.t)
        rn == ResourceName(opts.ReleaseName, opts.ReleaseNamespace)
        saName == SetTTLServiceAccount(opts, rn.name)
        s1 == SetTTLProvision(c, opts, saName, fault)
    IN IF parsed.err # Nil THEN [c |-> c, err |-> "InvalidDuration"]
       ELSE IF rn.err # Nil THEN [c |-> c, err |-> rn.err]
       ELSE Step(s1, SetTTLStore(s1.c, opts, schedule, saName, rn.name, fault))

SetTTL(opts, fault) ==
    /\ Idle
    /\ LET out == SetTTLOutcome(Cluster, opts, fault)
       IN /\ SetCluster(out.c)
          /\ ret' = Returned("SetTTL", opts,
                             Existed(Cluster, opts.ReleaseName,
                                     opts.ReleaseNamespace,
                                     opts.CronjobNamespace),
                             out.err, NilResult, NilInfo)
    /\ ops' = ops + 1
    /\ run' = IdleRun

\* The four numeric fields of a stored schedule, or an error.
ParseCronSchedule(schedule) ==
    IF Len(schedule) # 5
    THEN [err |-> "InvalidSchedule", minute |-> 0, hour |-> 0, day |-> 0,
          month |-> 0]
    ELSE [err |-> Nil,
          minute |-> CHOOSE n \in 0..59 : ToString(n) = schedule[1],
          hour |-> CHOOSE n \in 0..23 : ToString(n) = schedule[2],
          day |-> CHOOSE n \in 1..31 : ToString(n) = schedule[3],
          month |-> CHOOSE n \in 1..12 : ToString(n) = schedule[4]]

GetTTL(releaseName, releaseNamespace, cronjobNamespace, fault) ==
    /\ Idle
    /\ LET rn == ResourceName(releaseName, releaseNamespace)
           cj == Obj(cronjobs, cronjobNamespace, rn.name)
           err == IF rn.err # Nil THEN rn.err
                  ELSE IF "get cronjobs" \in fault THEN "GetCronJobFailed"
                  ELSE IF ~Has(cronjobs, cronjobNamespace, rn.name)
                  THEN "TTLNotFound"
                  ELSE IF ParseCronSchedule(cj.spec.schedule).err # Nil
                  THEN "InvalidSchedule"
                  ELSE Nil
           info == IF err # Nil THEN NilInfo
                   ELSE [nil |-> FALSE, ReleaseName |-> releaseName,
                         ReleaseNamespace |-> releaseNamespace,
                         CronjobNamespace |-> cronjobNamespace,
                         CronSchedule |-> cj.spec.schedule,
                         DeleteNamespace |-> cj.labels[LabelDeleteNamespace] = "true"]
       IN ret' = Returned("GetTTL",
                          RefOptions(releaseName, releaseNamespace,
                                     cronjobNamespace),
                          Existed(Cluster, releaseName, releaseNamespace,
                                  cronjobNamespace),
                          err, NilResult, info)
    /\ ops' = ops + 1
    /\ run' = IdleRun
    /\ UNCHANGED clusterVars

\* UnsetTTL's best-effort teardown: the error of CleanupRBAC is discarded.
UnsetTTLTeardown_propagate(c, releaseName, releaseNamespace, cronjobNamespace, fault) ==
    CleanupRBAC(c, releaseName, releaseNamespace, cronjobNamespace, fault)

UnsetTTLTeardown(c, releaseName, releaseNamespace, cronjobNamespace, fault) ==
    [c |-> CleanupRBAC(c, releaseName, releaseNamespace, cronjobNamespace,
                       fault).c,
     err |-> Nil]

\* UnsetTTL: the store it leaves and the error it returns.
UnsetTTLOutcome_teardownWhenMissing(c, releaseName, releaseNamespace, cronjobNamespace, fault) ==
    LET rn == ResourceName(releaseName, releaseNamespace)
        c1 == [c EXCEPT !.cronjobs = Del(@, cronjobNamespace, rn.name)]
        t == UnsetTTLTeardown(c1, releaseName, releaseNamespace,
                              cronjobNamespace, fault)
    IN IF rn.err # Nil THEN [c |-> c, err |-> rn.err]
       ELSE IF "delete cronjobs" \in fault
       THEN [c |-> c, err |-> "DeleteCronJobFailed"]
       ELSE IF ~Has(c.cronjobs, cronjobNamespace, rn.name)
       THEN [c |-> t.c, err |-> "TTLNotFound"]
       ELSE t

UnsetTTLOutcome(c, releaseName, releaseNamespace, cronjobNamespace, fault) ==
    LET rn == ResourceName(releaseName, releaseNamespace)
        c1 == [c EXCEPT !.cronjobs = Del(@, cronjobNamespace, rn.name)]
    IN IF rn.err # Nil THEN [c |-> c, err |-> rn.err]
       ELSE IF "delete cronjobs" \in fault
       THEN [c |-> c, err |-> "DeleteCronJobFailed"]
       ELSE IF ~Has(c.cronjobs, cronjobNamespace, rn.name)
       THEN [c |-> c, err |-> "TTLNotFound"]
       ELSE UnsetTTLTeardown(c1, releaseName, releaseNamespace,
                             cronjobNamespace, fault)

UnsetTTL(releaseName, releaseNamespace, cronjobNamespace, fault) ==
    /\ Idle
    /\ LET out == UnsetTTLOutcome(Cluster, releaseName, releaseNamespace,
                                  cronjobNamespace, fault)
       IN /\ SetCluster(out.c)
          /\ ret' = Returned("UnsetTTL",
                             RefOptions(releaseName, releaseNamespace,
                                        cronjobNamespace),
                             Existed(Cluster, releaseName, releaseNamespace,
                                     cronjobNamespace),
                             out.err, NilResult, NilInfo)
    /\ ops' = ops + 1
    /\ run' = IdleRun

(***************************************************************************)
(* Execution engine: RunTTL                                                *)
(***************************************************************************)
\* RunTTL up to the creation of the Job.
RunTTLBeginOutcome_cleanupOnCreateFailure(c, releaseName, releaseNamespace, cronjobNamespace, fault) ==
    LET rn == ResourceName(releaseName, releaseNamespace)
        jobName == rn.name \o "-run"
        none == [c |-> c, err |-> Nil, created |-> FALSE, jobName |-> "",
                 deleteNamespace |-> FALSE]
    IN IF rn.err # Nil THEN [none EXCEPT !.err = rn.err]
       ELSE IF "get cronjobs" \in fault
       THEN [none EXCEPT !.err = "GetCronJobFailed"]
       ELSE IF ~Has(c.cronjobs, cronjobNamespace, rn.name)
       THEN [none EXCEPT !.err = "TTLNotFound"]
       ELSE LET cj == Obj(c.cronjobs, cronjobNamespace, rn.name)
                job == BuildJobFromCronJob(cj, jobName)
                c1 == [c EXCEPT !.jobs = Del(@, cronjobNamespace, jobName)]
            IN IF "create jobs" \in fault
                  \/ Has(c.jobs, cronjobNamespace, jobName)
               THEN [none EXCEPT !.err = "CreateJobFailed",
                                 !.c = CleanupRBAC(c1, releaseName,
                                                   releaseNamespace,
                                                   cronjobNamespace, fault).c]
               ELSE [c |-> [c EXCEPT !.jobs = Created(@, job)], err |-> Nil,
                     created |-> TRUE, jobName |-> jobName,
                     deleteNamespace |-> cj.labels[LabelDeleteNamespace] = "true"]

RunTTLBeginOutcome(c, releaseName, releaseNamespace, cronjobNamespace, fault) ==
    LET rn == ResourceName(releaseName, releaseNamespace)
        jobName == rn.name \o "-run"
        none == [c |-> c, err |-> Nil, created |-> FALSE, jobName |-> "",
                 deleteNamespace |-> FALSE]
    IN IF rn.err # Nil THEN [none EXCEPT !.err = rn.err]
       ELSE IF "get cronjobs" \in fault
       THEN [none EXCEPT !.err = "GetCronJobFailed"]
       ELSE IF ~Has(c.cronjobs, cronjobNamespace, rn.name)
       THEN [none EXCEPT !.err = "TTLNotFound"]
       ELSE LET cj == Obj(c.cronjobs, cronjobNamespace, rn.name)
                job == BuildJobFromCronJob(cj, jobName)
            IN IF "create jobs" \in fault
                  \/ Has(c.jobs, cronjobNamespace, jobName)
               THEN [none EXCEPT !.err = "CreateJobFailed"]
               ELSE [c |-> [c EXCEPT !.jobs = Created(@, job)], err |-> Nil,
                     created |-> TRUE, jobName |-> jobName,
                     deleteNamespace |-> cj.labels[LabelDeleteNamespace] = "true"]

RunTTLBegin(releaseName, releaseNamespace, cronjobNamespace, fault) ==
    /\ Idle
    /\ LET out == RunTTLBeginOutcome(Cluster, releaseName, releaseNamespace,
                                     cronjobNamespace, fault)
           opts == RefOptions(releaseName, releaseNamespace, cronjobNamespace)
           existed == Existed(Cluster, releaseName, releaseNamespace,
                              cronjobNamespace)
           started == [IdleRun EXCEPT
                         !.ReleaseName = releaseName,
                         !.ReleaseNamespace = releaseNamespace,
                         !.CronjobNamespace = cronjobNamespace,
                         !.fault = fault]
       IN /\ SetCluster(out.c)
          /\ IF out.created
             THEN /\ run' = [started EXCEPT
                               !.pc = "waitForPod",
                               !.jobName = out.jobName,
                               !.jobCreated = TRUE,
                               !.deleteNamespace = out.deleteNamespace,
                               !.result = [NilResult EXCEPT
                                             !.nil = FALSE,
                                             !.ReleaseName = releaseName,
                                             !.ReleaseNamespace = releaseNamespace]]
                  /\ ret' = Returned("RunTTL", opts, existed, "pending",
                                     NilResult, NilInfo)
             ELSE /\ run' = [started EXCEPT !.pc = "done"]
                  /\ ret' = Returned("RunTTL", opts, existed, out.err,
                                     NilResult, NilInfo)
    /\ ops' = ops + 1

\* The pods the label selector job-name=<jobName> lists.
PodsOfJob(S, ns, jobName) ==
    {p \in S : p.namespace = ns /\ p.labels["job-name"] = jobName}

\* The names of the pod's init containers, then of its main containers.
AllContainers(pod) ==
    [i \in 1..(Len(pod.spec.initContainers) + Len(pod.spec.containers)) |->
        IF i <= Len(pod.spec.initContainers)
        THEN pod.spec.initContainers[i].name
        ELSE pod.spec.containers[i - Len(pod.spec.initContainers)].name]

waitForPod_giveUpWhenEmpty ==
    /\ run.pc = "waitForPod"
    /\ LET found == PodsOfJob(pods, run.CronjobNamespace, run.jobName)
       IN IF "list pods" \in run.fault
          THEN run' = [run EXCEPT !.pc = "cleanup", !.runErr = "PodListFailed"]
          ELSE IF found # {}
          THEN LET pod == CHOOSE p \in found : TRUE
               IN run' = [run EXCEPT !.pc = "waitForContainerTermination",
                                     !.podName = pod.name,
                                     !.allContainers = AllContainers(pod)]
          ELSE run' = [run EXCEPT !.pc = "cleanup",
                                  !.runErr = "PodWaitTimeout"]
    /\ UNCHANGED <<clusterVars, ret, ops>>

\* waitForPod leaves its loop: the list call fails, a pod is listed, or the
\* context is done.
waitForPod ==
    /\ run.pc = "waitForPod"
    /\ LET found == PodsOfJob(pods, run.CronjobNamespace, run.jobName)
       IN IF "list pods" \in run.fault
          THEN run' = [run EXCEPT !.pc = "cleanup", !.runErr = "PodListFailed"]
          ELSE IF found # {}
          THEN LET pod == CHOOSE p \in found : TRUE
               IN run' = [run EXCEPT !.pc = "waitForContainerTermination",
                                     !.podName = pod.name,
                                     !.allContainers = AllContainers(pod)]
          ELSE /\ run.ctxDone
               /\ run' = [run EXCEPT !.pc = "cleanup",
                                     !.runErr = "PodWaitTimeout"]
    /\ UNCHANGED <<clusterVars, ret, ops>>

\* The header streamContainerLogs writes for a container.
LogHeader(containerName) == "==> Container: " \o containerName \o " <=="

streamContainerLogs_fetchFirst(w, containerName, fault) ==
    IF "get logs" \in fault THEN [w |-> w, err |-> "LogFetchFailed"]
    ELSE IF "copy logs" \in fault
    THEN [w |-> Append(w, LogHeader(containerName)), err |-> "LogStreamFailed"]
    ELSE [w |-> Append(Append(w, LogHeader(containerName)),
                       "logs of " \o containerName),
          err |-> Nil]

\* streamContainerLogs: the header, then the fetch, then the copy to the sink.
streamContainerLogs(w, containerName, fault) ==
    LET headed == Append(w, LogHeader(containerName))
    IN IF "get logs" \in fault THEN [w |-> headed, err |-> "LogFetchFailed"]
       ELSE IF "copy logs" \in fault
       THEN [w |-> headed, err |-> "LogStreamFailed"]
       ELSE [w |-> Append(headed, "logs of " \o containerName), err |-> Nil]

\* The polling result after one more container was recorded.
Recorded_stopOnFailure(r, containerName, exitCode) ==
    LET results == Append(r.result.ContainerResults,
                          [Name |-> containerName, ExitCode |-> exitCode])
    IN [r EXCEPT !.log = streamContainerLogs(@, containerName, r.fault).w,
                 !.result.ContainerResults = results,
                 !.result.JobFailed = @ \/ exitCode # 0,
                 !.pc = IF Len(results) = Len(r.allContainers) \/ exitCode # 0
                        THEN "cleanup" ELSE @]

Recorded(r, containerName, exitCode) ==
    LET results == Append(r.result.ContainerResults,
                          [Name |-> containerName, ExitCode |-> exitCode])
    IN [r EXCEPT !.log = streamContainerLogs(@, containerName, r.fault).w,
                 !.result.ContainerResults = results,
                 !.result.JobFailed = @ \/ exitCode # 0,
                 !.pc = IF Len(results) = Len(r.allContainers)
                        THEN "cleanup" ELSE @]

waitForContainerTermination_ignoreContext ==
    /\ run.pc = "waitForContainerTermination"
    /\ LET containerName ==
               run.allContainers[Len(run.result.ContainerResults) + 1]
       IN IF "get pods" \in run.fault
             \/ ~Has(pods, run.CronjobNamespace, run.podName)
          THEN run' = [run EXCEPT !.pc = "cleanup", !.runErr = "PodGetFailed"]
          ELSE LET pod == Obj(pods, run.CronjobNamespace, run.podName)
               IN /\ pod.status[containerName] # NotTerminated
                  /\ run' = Recorded(run, containerName,
                                     pod.status[containerName])
    /\ UNCHANGED <<clusterVars, ret, ops>>

\* waitForContainerTermination leaves its loop for the next container of
\* allContainers: the get call fails, the container has terminated, or the
\* context is done.
waitForContainerTermination ==
    /\ run.pc = "waitForContainerTermination"
    /\ LET containerName ==
               run.allContainers[Len(run.result.ContainerResults) + 1]
       IN IF "get pods" \in run.fault
             \/ ~Has(pods, run.CronjobNamespace, run.podName)
          THEN run' = [run EXCEPT !.pc = "cleanup", !.runErr = "PodGetFailed"]
          ELSE LET pod == Obj(pods, run.CronjobNamespace, run.podName)
               IN IF pod.status[containerName] # NotTerminated
                  THEN run' = Recorded(run, containerName,
                                       pod.status[containerName])
                  ELSE /\ run.ctxDone
                       /\ run' = [run EXCEPT !.pc = "cleanup",
                                             !.runErr = "ContainerWaitTimeout"]
    /\ UNCHANGED <<clusterVars, ret, ops>>

\* Whether the context the cleanup calls run under is done: it is made from
\* context.Background(), not from the caller's context.
cleanupCtxDone_derived(ctxDone) == ctxDone

cleanupCtxDone(ctxDone) == FALSE

\* The error kept from a call whose result is assigned to the blank identifier.
BestEffort_propagate(err) == err

BestEffort(err) == Nil

\* The error RunTTL returns after a cleanup that did not itself return.
RunTTLError_jobFailedFirst(runErr, jobFailed) ==
    IF jobFailed THEN "JobFailed"
    ELSE IF runErr # Nil THEN runErr
    ELSE Nil

RunTTLError(runErr, jobFailed) ==
    IF runErr # Nil THEN runErr
    ELSE IF jobFailed THEN "JobFailed"
    ELSE Nil

NamespaceDeletion_onlyAfterSuccess(c, r, cancelled) ==
    IF ~r.deleteNamespace \/ r.runErr # Nil \/ r.result.JobFailed
    THEN [c |-> c, err |-> Nil]
    ELSE IF cancelled \/ "delete namespaces" \in r.fault
    THEN [c |-> c, err |-> "DeleteNamespaceFailed"]
    ELSE [c |-> [c EXCEPT !.namespaces = @ \ {r.ReleaseNamespace}],
          err |-> Nil]

\* The namespace deletion of the cleanup: made when the label the run read
\* from the CronJob was "true"; a namespace that is already gone is no error.
NamespaceDeletion(c, r, cancelled) ==
    IF ~r.deleteNamespace THEN [c |-> c, err |-> Nil]
    ELSE IF cancelled \/ "delete namespaces" \in r.fault
    THEN [c |-> c, err |-> "DeleteNamespaceFailed"]
    ELSE [c |-> [c EXCEPT !.namespaces = @ \ {r.ReleaseNamespace}],
          err |-> Nil]

\* The cleanup section of RunTTL and its return.
RunTTLCleanup ==
    /\ run.pc = "cleanup"
    /\ LET cancelled == cleanupCtxDone(run.ctxDone)
           c0 == Cluster
           jobDel == IF cancelled \/ "delete jobs" \in run.fault
                     THEN [c |-> c0, err |-> "Error"]
                     ELSE [c |-> [c0 EXCEPT !.jobs =
                                    Del(@, run.CronjobNamespace, run.jobName)],
                           err |-> Nil]
           rbac == IF cancelled THEN [c |-> jobDel.c, err |-> "Error"]
                   ELSE CleanupRBAC(jobDel.c, run.ReleaseName,
                                    run.ReleaseNamespace, run.CronjobNamespace,
                                    run.fault)
           kept == IF BestEffort(jobDel.err) # Nil THEN BestEffort(jobDel.err)
                   ELSE BestEffort(rbac.err)
           nsDel == NamespaceDeletion(rbac.c, run, cancelled)
           calls == IF cancelled THEN {}
                    ELSE {"delete jobs", "CleanupRBAC"}
                         \cup (IF run.deleteNamespace
                               THEN {"delete namespaces"} ELSE {})
           result == [run.result EXCEPT !.DeletedNamespace = run.deleteNamespace]
       IN /\ SetCluster(nsDel.c)
          /\ run' = [run EXCEPT !.pc = "done", !.calls = calls]
          /\ ret' = IF kept # Nil
                    THEN [ret EXCEPT !.err = kept, !.result = NilResult]
                    ELSE IF nsDel.err # Nil
                    THEN [ret EXCEPT !.err = nsDel.err, !.result = NilResult]
                    ELSE [ret EXCEPT
                            !.err = RunTTLError(run.runErr, run.result.JobFailed),
                            !.result = result]
    /\ UNCHANGED ops

(***************************************************************************)
(* Environment: the Job controller, the kubelet, the garbage collector,    *)
(* other clients of the API server and the caller's context                *)
(***************************************************************************)
\* A container an admission webhook injects into the pod.
Sidecar == [name |-> "istio-proxy", image |-> "istio/proxyv2",
            command |-> <<"pilot-agent">>]

\* The Job controller creates the pod of the Job the run waits on.
PodAppears(inject) ==
    /\ run.pc = "waitForPod"
    /\ Has(jobs, run.CronjobNamespace, run.jobName)
    /\ PodsOfJob(pods, run.CronjobNamespace, run.jobName) = {}
    /\ LET job == Obj(jobs, run.CronjobNamespace, run.jobName)
           tmpl == job.spec.template.spec
           containers == IF inject THEN tmpl.containers \o <<Sidecar>>
                         ELSE tmpl.containers
           names == {tmpl.initContainers[i].name :
                        i \in 1..Len(tmpl.initContainers)}
                    \cup {containers[i].name : i \in 1..Len(containers)}
       IN pods' = pods \cup
             {[name |-> run.jobName \o "-pod",
               namespace |-> run.CronjobNamespace,
               labels |-> ("job-name" :> run.jobName),
               uid |-> ServerUID,
               spec |-> [initContainers |-> tmpl.initContainers,
                         containers |-> containers],
               status |-> [n \in names |-> NotTerminated]]}
    /\ UNCHANGED <<cronjobs, jobs, serviceAccounts, roles, roleBindings,
                   clusterRoles, clusterRoleBindings, namespaces, run, ret, ops>>

\* A container runs once the init containers before it have terminated.
Started(pod, name) ==
    LET init == pod.spec.initContainers
    IN IF \E i \in 1..Len(init) : init[i].name = name
       THEN \A i \in 1..Len(init) :
               (\E j \in (i + 1)..Len(init) : init[j].name = name)
               => pod.status[init[i].name] # NotTerminated
       ELSE \A i \in 1..Len(init) : pod.status[init[i].name] # NotTerminated

\* The kubelet reports a container of the watched pod as terminated.
ContainerTerminates(code) ==
    /\ run.pc \in {"waitForPod", "waitForContainerTermination"}
    /\ \E pod \in PodsOfJob(pods, run.CronjobNamespace, run.jobName) :
       \E name \in DOMAIN pod.status :
          /\ pod.status[name] = NotTerminated
          /\ Started(pod, name)
          /\ pods' = (pods \ {pod})
                     \cup {[pod EXCEPT !.status[name] = code]}
    /\ UNCHANGED <<cronjobs, jobs, serviceAccounts, roles, roleBindings,
                   clusterRoles, clusterRoleBindings, namespaces, run, ret, ops>>

\* Background propagation: the pods of a deleted Job are collected later.
GarbageCollect ==
    /\ \E pod \in pods :
          /\ ~Has(jobs, pod.namespace, pod.labels["job-name"])
          /\ pods' = pods \ {pod}
    /\ UNCHANGED <<cronjobs, jobs, serviceAccounts, roles, roleBindings,
                   clusterRoles, clusterRoleBindings, namespaces, run, ret, ops>>

\* Another client annotates a stored CronJob.
Annotate ==
    /\ Idle
    /\ \E cj \in cronjobs :
          /\ cj.annotations = {}
          /\ cronjobs' = Updated(cronjobs,
                                 [cj EXCEPT !.annotations = {"owner=team-a"}])
    /\ UNCHANGED <<jobs, pods, serviceAccounts, roles, roleBindings,
                   clusterRoles, clusterRoleBindings, namespaces, run, ret, ops>>

\* The caller's context is cancelled or its deadline passes.
ContextDone ==
    /\ run.pc \in {"waitForPod", "waitForContainerTermination"}
    /\ ~run.ctxDone
    /\ run' = [run EXCEPT !.ctxDone = TRUE]
    /\ UNCHANGED <<clusterVars, ret, ops>>

(***************************************************************************)
(* Specifications                                                          *)
(***************************************************************************)
DefaultServiceAccount(ns) ==
    [name |-> "default", namespace |-> ns, labels |-> <<>>, uid |-> ServerUID]

EmptyCluster ==
    [cronjobs |-> {}, jobs |-> {}, pods |-> {},
     serviceAccounts |-> {DefaultServiceAccount(ns) : ns \in CronjobNamespaces},
     roles |-> {}, roleBindings |-> {}, clusterRoles |-> {},
     clusterRoleBindings |-> {}, namespaces |-> CronjobNamespaces]

NoReturn ==
    Returned("none", RefOptions("", "", ""), FALSE, Nil, NilResult, NilInfo)

\* The store holds exactly the objects of c.
ClusterIs(c) ==
    /\ cronjobs = c.cronjobs
    /\ jobs = c.jobs
    /\ pods = c.pods
    /\ serviceAccounts = c.serviceAccounts
    /\ roles = c.roles
    /\ roleBindings = c.roleBindings
    /\ clusterRoles = c.clusterRoles
    /\ clusterRoleBindings = c.clusterRoleBindings
    /\ namespaces = c.namespaces

Init ==
    /\ ClusterIs(EmptyCluster)
    /\ run = IdleRun
    /\ ret = NoReturn
    /\ ops = 0

\* Reactor-style fault injection: the API calls that fail during an operation.
OneOf(calls) == {{}} \cup {{call} : call \in calls}

SetFaults ==
    {{}, {"create roles"}, {"create cronjobs", "update cronjobs"}}

UnsetFaults == OneOf({"delete cronjobs", "delete roles"})

RunFaults ==
    OneOf({"get cronjobs", "create jobs", "list pods", "get pods",
           "delete jobs", "delete rolebindings", "delete namespaces"})
    \cup {{"delete jobs", "delete namespaces"}}

\* The options SetTTL is called with; the releases other than "myapp" are
\* exercised with one duration and the default service account name, and the
\* invalid duration with the default service account name.
SetTTLOptions ==
    {opts \in [ReleaseName : ReleaseNames, ReleaseNamespace : ReleaseNamespaces,
               CronjobNamespace : CronjobNamespaces, Duration : Durations,
               ServiceAccount : ServiceAccountNames,
               CreateServiceAccount : BOOLEAN, HelmImage : {""},
               KubectlImage : {""}, DeleteNamespace : BOOLEAN] :
        /\ opts.ReleaseName # "myapp"
              => /\ opts.Duration = [n |-> 30, unit |-> "m"]
                 /\ opts.ServiceAccount = "default"
        /\ opts.Duration.n <= 0 => opts.ServiceAccount = "default"}

\* The lifecycle operations in any order, with the run path free of faults.
Next ==
    \/ /\ ops < MaxOps
       /\ \E opts \in SetTTLOptions, fault \in SetFaults : SetTTL(opts, fault)
    \/ /\ ops < MaxOps
       /\ \E rel \in ReleaseNames, ns \in ReleaseNamespaces,
             cjns \in CronjobNamespaces, fault \in OneOf({"get cronjobs"}) :
             GetTTL(rel, ns, cjns, fault)
    \/ /\ ops < MaxOps
       /\ \E rel \in ReleaseNames, ns \in ReleaseNamespaces,
             cjns \in CronjobNamespaces, fault \in UnsetFaults :
             UnsetTTL(rel, ns, cjns, fault)
    \/ /\ ops < MaxOps
       /\ \E rel \in ReleaseNames, ns \in ReleaseNamespaces,
             cjns \in CronjobNamespaces : RunTTLBegin(rel, ns, cjns, {})
    \/ PodAppears(FALSE)
    \/ \E code \in ExitCodes : ContainerTerminates(code)
    \/ ContextDone
    \/ waitForPod
    \/ waitForContainerTermination
    \/ RunTTLCleanup
    \/ GarbageCollect
    \/ Annotate

Spec == Init /\ [][Next]_vars

\* The execution engine alone, on every store one successful SetTTL leaves.
InitRun ==
    /\ \E opts \in SetTTLOptions :
          LET out == SetTTLOutcome(EmptyCluster, opts, {})
          IN out.err = Nil /\ ClusterIs(out.c)
    /\ run = IdleRun
    /\ ret = NoReturn
    /\ ops = 0

NextRun ==
    \/ /\ ops < MaxRuns
       /\ \E rel \in ReleaseNames, ns \in ReleaseNamespaces,
             cjns \in CronjobNamespaces, fault \in RunFaults :
             RunTTLBegin(rel, ns, cjns, fault)
    \/ \E inject \in BOOLEAN : PodAppears(inject)
    \/ \E code \in ExitCodes : ContainerTerminates(code)
    \/ ContextDone
    \/ waitForPod
    \/ waitForContainerTermination
    \/ RunTTLCleanup
    \/ GarbageCollect

SpecRun == InitRun /\ [][NextRun]_vars

(***************************************************************************)
(* The access provisioner called directly, next to SetTTL                  *)
(***************************************************************************)
\* What a direct call of the access provisioner was given and returned;
\* again: the call before it was the same call with the same arguments and
\* succeeded; retry: it was the same call with the same arguments and
\* failed; changed: the call before it was a successful
\* CreateServiceAccountAndRBAC for the same release with other arguments.
AccessReturned(op, args, err, orphaned) ==
    [op |-> op, args |-> args, err |-> err, orphaned |-> orphaned,
     again |-> /\ ret.op = op
               /\ ret.err = Nil
               /\ ret.args = args,
     retry |-> /\ ret.op = op
               /\ ret.err # Nil
               /\ ret.args = args,
     changed |-> /\ op = "CreateServiceAccountAndRBAC"
                 /\ ret.op = op
                 /\ ret.err = Nil
                 /\ ret.args # args
                 /\ ret.args.releaseName = args.releaseName
                 /\ ret.args.releaseNamespace = args.releaseNamespace]

Provision(args, fault) ==
    /\ LET out == CreateServiceAccountAndRBAC(Cluster, args.releaseName,
                      args.releaseNamespace, args.cronjobNamespace,
                      args.serviceAccountName, args.deleteNamespace, fault)
       IN /\ SetCluster(out.c)
          /\ ret' = AccessReturned("CreateServiceAccountAndRBAC", args,
                                   out.err, <<>>)
    /\ ops' = ops + 1
    /\ run' = IdleRun

Teardown(args, fault) ==
    /\ LET out == CleanupRBAC(Cluster, args.releaseName, args.releaseNamespace,
                              args.cronjobNamespace, fault)
       IN /\ SetCluster(out.c)
          /\ ret' = AccessReturned("CleanupRBAC", args, out.err, <<>>)
    /\ ops' = ops + 1
    /\ run' = IdleRun

FindOrphans(args, fault) ==
    /\ LET out == CleanupOrphaned(Cluster, args.namespaces, args.allNamespaces,
                                  args.dryRun, fault)
       IN /\ SetCluster(out.c)
          /\ ret' = AccessReturned("CleanupOrphaned", args, out.err,
                                   out.orphaned)
    /\ ops' = ops + 1
    /\ run' = IdleRun

\* The service account names the provisioner is given: the resource name
\* (SetTTL's choice) or a custom one.
ProvisionArgs ==
    {args \in [releaseName : {"myapp", LongRelease},
               releaseNamespace : ReleaseNamespaces,
               cronjobNamespace : CronjobNamespaces,
               serviceAccountName : {"myapp-staging-ttl", "ttl-sa"},
               deleteNamespace : BOOLEAN] :
        args.releaseName = LongRelease
           => args.serviceAccountName = "ttl-sa"}

TeardownArgs ==
    [releaseName : {"myapp", LongRelease}, releaseNamespace : ReleaseNamespaces,
     cronjobNamespace : CronjobNamespaces]

FindOrphansArgs ==
    [namespaces : {<<"staging">>, <<"ops", "staging">>},
     allNamespaces : BOOLEAN, dryRun : BOOLEAN]

ProvisionFaults == OneOf({"create rolebindings"})
TeardownFaults == OneOf({"delete roles"})
FindOrphansFaults == OneOf({"delete roles"})
AccessSetFaults == OneOf({"get serviceaccounts"})

\* SetTTL next to the provisioner: stored releases, one duration.
AccessSetTTLOptions ==
    {opts \in SetTTLOptions :
        /\ opts.ReleaseName \in StoredReleases
        /\ opts.Duration = [n |-> 30, unit |-> "m"]}

NextAccess ==
    \/ /\ ops < MaxCalls
       /\ \E args \in ProvisionArgs, fault \in ProvisionFaults :
             Provision(args, fault)
    \/ /\ ops < MaxCalls
       /\ \E args \in TeardownArgs, fault \in TeardownFaults :
             Teardown(args, fault)
    \/ /\ ops < MaxCalls
       /\ \E args \in FindOrphansArgs, fault \in FindOrphansFaults :
             FindOrphans(args, fault)
    \/ /\ ops < MaxCalls
       /\ \E opts \in AccessSetTTLOptions, fault \in AccessSetFaults :
             SetTTL(opts, fault)

SpecAccess == Init /\ [][NextAccess]_vars

(***************************************************************************)
(* The operations called with names at the length limit                    *)
(***************************************************************************)
LimitReleases == {FitRelease, OverRelease}

\* SetTTL options for the releases at the limit.
LimitSetTTLOptions ==
    [ReleaseName : LimitReleases, ReleaseNamespace : ReleaseNamespaces,
     CronjobNamespace : CronjobNamespaces,
     Duration : {[n |-> 30, unit |-> "m"], [n |-> -1, unit |-> "h"]},
     ServiceAccount : {"default"}, CreateServiceAccount : {TRUE},
     HelmImage : {""}, KubectlImage : {""}, DeleteNamespace : BOOLEAN]

LimitProvisionArgs ==
    [releaseName : LimitReleases, releaseNamespace : ReleaseNamespaces,
     cronjobNamespace : CronjobNamespaces, serviceAccountName : {"ttl-sa"},
     deleteNamespace : BOOLEAN]

LimitTeardownArgs ==
    [releaseName : LimitReleases, releaseNamespace : ReleaseNamespaces,
     cronjobNamespace : CronjobNamespaces]

\* The empty store, and the stores one successful SetTTL for the release with
\* the 52-character name leaves.
LimitStores ==
    {EmptyCluster}
    \cup {SetTTLOutcome(EmptyCluster, opts, {}).c :
             opts \in {o \in LimitSetTTLOptions :
                          /\ o.ReleaseName = FitRelease
                          /\ SetTTLOutcome(EmptyCluster, o, {}).err = Nil}}

InitNames ==
    /\ \E c \in LimitStores : ClusterIs(c)
    /\ run = IdleRun
    /\ ret = NoReturn
    /\ ops = 0

NextNames ==
    \/ /\ ops < MaxNameCalls
       /\ \E opts \in LimitSetTTLOptions, fault \in OneOf({"create roles"}) :
             SetTTL(opts, fault)
    \/ /\ ops < MaxNameCalls
       /\ \E rel \in LimitReleases, ns \in ReleaseNamespaces,
             cjns \in CronjobNamespaces, fault \in OneOf({"get cronjobs"}) :
             GetTTL(rel, ns, cjns, fault)
    \/ /\ ops < MaxNameCalls
       /\ \E rel \in LimitReleases, ns \in ReleaseNamespaces,
             cjns \in CronjobNamespaces, fault \in OneOf({"delete cronjobs"}) :
             UnsetTTL(rel, ns, cjns, fault)
    \/ /\ ops < MaxNameCalls
       /\ \E rel \in LimitReleases, ns \in ReleaseNamespaces,
             cjns \in CronjobNamespaces, fault \in OneOf({"get cronjobs"}) :
             RunTTLBegin(rel, ns, cjns, fault)
    \/ /\ ops < MaxNameCalls
       /\ \E args \in LimitProvisionArgs, fault \in ProvisionFaults :
             Provision(args, fault)
    \/ /\ ops < MaxNameCalls
       /\ \E args \in LimitTeardownArgs, fault \in TeardownFaults :
             Teardown(args, fault)
    \/ PodAppears(FALSE)
    \/ \E code \in ExitCodes : ContainerTerminates(code)
    \/ ContextDone
    \/ waitForPod
    \/ waitForContainerTermination
    \/ RunTTLCleanup
    \/ GarbageCollect

SpecNames == InitNames /\ [][NextNames]_vars

(***************************************************************************)
(* Two SetTTL calls for the same release, interleaved at their API calls   *)
(***************************************************************************)
\* The options of the racing calls: same release and namespaces, the service
\* account checked or provisioned, different durations.
RaceOptions ==
    [ReleaseName : {"myapp"}, ReleaseNamespace : ReleaseNamespaces,
     CronjobNamespace : CronjobNamespaces,
     Duration : {[n |-> 30, unit |-> "m"], [n |-> 7, unit |-> "d"]},
     ServiceAccount : {"default"}, CreateServiceAccount : BOOLEAN,
     HelmImage : {""}, KubectlImage : {""}, DeleteNamespace : {FALSE}]

\* A SetTTL call in progress: where it is, what its Get returned (no object,
\* or the one object), whether the other call had returned when it began.
RaceCall(opts) ==
    [opts |-> opts, pc |-> "begin", seen |-> {}, alone |-> FALSE, err |-> Nil]

\* The CronJob a SetTTL call with these options builds.
SetTTLBuilt(opts) ==
    LET rn == ResourceName(opts.ReleaseName, opts.ReleaseNamespace)
    IN BuildCronJob([ReleaseName |-> opts.ReleaseName,
                     ReleaseNamespace |-> opts.ReleaseNamespace,
                     CronjobNamespace |-> opts.CronjobNamespace,
                     Schedule |-> TimeToCronSchedule(
                                      ParseTimeInput(opts.Duration, Now).t),
                     ServiceAccount |-> SetTTLServiceAccount(opts, rn.name),
                     HelmImage |-> opts.HelmImage,
                     KubectlImage |-> opts.KubectlImage,
                     DeleteNamespace |-> opts.DeleteNamespace]).cj

\* SetTTL up to the service account: the checks, then the bundle or the Get
\* of the service account.
SetTTLBeginOutcome(c, opts) ==
    LET rn == ResourceName(opts.ReleaseName, opts.ReleaseNamespace)
    IN IF opts.ReleaseName \notin StoredReleases
       THEN [c |-> c, err |-> "ReleaseNotFound"]
       ELSE IF opts.DeleteNamespace
               /\ opts.ReleaseNamespace = opts.CronjobNamespace
       THEN [c |-> c, err |-> "NamespaceConflict"]
       ELSE IF ParseTimeInput(opts.Duration, Now).err # Nil
       THEN [c |-> c, err |-> "InvalidDuration"]
       ELSE IF rn.err # Nil THEN [c |-> c, err |-> rn.err]
       ELSE SetTTLProvision(c, opts, SetTTLServiceAccount(opts, rn.name), {})

SetTTLWriteOutcome_skipUpdate(c, opts, seen, enforce) ==
    LET cj == SetTTLBuilt(opts)
    IN IF seen = {}
       THEN IF Has(c.cronjobs, cj.namespace, cj.name)
            THEN [c |-> c, err |-> "CreateCronJobFailed"]
            ELSE [c |-> [c EXCEPT !.cronjobs = Created(@, cj)], err |-> Nil]
       ELSE [c |-> c, err |-> Nil]

\* SetTTL after its Get of the CronJob: Create when the Get found nothing,
\* Update of the object the Get returned otherwise. Create fails when the
\* object exists by now; Update fails when the object is gone, and on a
\* server that enforces resource versions also when the stored object is no
\* longer the one the Get returned.
SetTTLWriteOutcome(c, opts, seen, enforce) ==
    LET cj == SetTTLBuilt(opts)
        stored == Has(c.cronjobs, cj.namespace, cj.name)
    IN IF seen = {}
       THEN IF stored
            THEN [c |-> c, err |-> "CreateCronJobFailed"]
            ELSE [c |-> [c EXCEPT !.cronjobs = Created(@, cj)], err |-> Nil]
       ELSE LET existing == CHOOSE o \in seen : TRUE
            IN IF \/ ~stored
                  \/ enforce /\ Obj(c.cronjobs, cj.namespace, cj.name) # existing
               THEN [c |-> c, err |-> "UpdateCronJobFailed"]
               ELSE [c |-> [c EXCEPT !.cronjobs =
                              Updated(@, UpdatedCronJob(existing, cj))],
                     err |-> Nil]

\* Call i runs the checks and the service account step.
SetTTLBegin(i) ==
    /\ ret.op = "SetTTLRace"
    /\ ret.calls[i].pc = "begin"
    /\ LET out == SetTTLBeginOutcome(Cluster, ret.calls[i].opts)
       IN /\ SetCluster(out.c)
          /\ ret' = [ret EXCEPT
                       !.calls[i].pc = IF out.err # Nil THEN "done" ELSE "get",
                       !.calls[i].err = out.err,
                       !.calls[i].alone = ret.calls[3 - i].pc = "done"]
    /\ UNCHANGED <<run, ops>>

\* Call i gets the CronJob.
SetTTLGet(i) ==
    /\ ret.op = "SetTTLRace"
    /\ ret.calls[i].pc = "get"
    /\ LET cj == SetTTLBuilt(ret.calls[i].opts)
       IN ret' = [ret EXCEPT
                    !.calls[i].pc = "write",
                    !.calls[i].seen =
                        {o \in cronjobs : /\ o.namespace = cj.namespace
                                          /\ o.name = cj.name}]
    /\ UNCHANGED <<clusterVars, run, ops>>

\* Call i creates or updates the CronJob and returns.
SetTTLWrite(i, enforce) ==
    /\ ret.op = "SetTTLRace"
    /\ ret.calls[i].pc = "write"
    /\ LET out == SetTTLWriteOutcome(Cluster, ret.calls[i].opts,
                                     ret.calls[i].seen, enforce)
       IN /\ SetCluster(out.c)
          /\ ret' = [ret EXCEPT !.calls[i].pc = "done",
                                !.calls[i].err = out.err]
    /\ UNCHANGED <<run, ops>>

\* The empty store, and the stores one earlier SetTTL leaves.
RaceStores ==
    {EmptyCluster}
    \cup {SetTTLOutcome(EmptyCluster, opts, {}).c :
             opts \in {o \in RaceOptions : o.Duration.unit = "d"}}

InitRace ==
    /\ \E c \in RaceStores : ClusterIs(c)
    /\ run = IdleRun
    /\ \E a \in RaceOptions, b \in RaceOptions :
          /\ a.CronjobNamespace = b.CronjobNamespace
          /\ ret = [op |-> "SetTTLRace", calls |-> <<RaceCall(a), RaceCall(b)>>]
    /\ ops = 0

NextRace ==
    \/ \E i \in {1, 2} : SetTTLBegin(i)
    \/ \E i \in {1, 2} : SetTTLGet(i)
    \/ \E i \in {1, 2}, enforce \in BOOLEAN : SetTTLWrite(i, enforce)

SpecRace == InitRace /\ [][NextRace]_vars

(***************************************************************************)
(* The pure functions applied to inputs drawn from bounded sets            *)
(***************************************************************************)
\* An input waiting for the function of its kind.
CodecInput(kind, input) == [op |-> "input", kind |-> kind, input |-> input]

\* What a pure function was applied to and what it returned.
CodecOutput(op, input, out) == [op |-> op, input |-> input, out |-> out]

NamePairs == [releaseName : NameParts, releaseNamespace : NameParts]

\* Days of a 365-day year before the first of each month.
DaysBefore == <<0, 31, 59, 90, 120, 151, 181, 212, 243, 273, 304, 334>>

\* Instants with zero seconds, given by their calendar fields.
CodecInstants ==
    {f \in [year : CodecYears, month : 1..12, day : CodecDays,
            hour : CodecHours, minute : CodecMinutes] :
        f.day <= DaysInMonth[f.month]}

\* The instant of calendar fields, in minutes since 2025-01-01T00:00Z.
InstantAt(f) ==
    (((f.year * 365 + DaysBefore[f.month] + f.day - 1) * 24 + f.hour) * 60)
    + f.minute

\* The options BuildCronJob is applied to on its own.
CodecCronJobOptions ==
    [ReleaseName : {"myapp"}, ReleaseNamespace : ReleaseNamespaces,
     CronjobNamespace : CronjobNamespaces,
     Schedule : {<<"0", "12", "1", "1", "*">>},
     ServiceAccount : {"ttl-sa"}, HelmImage : {"", "alpine/helm:3.14"},
     KubectlImage : {"", "alpine/k8s:1.29"}, DeleteNamespace : BOOLEAN]

\* A CronJob made by hand whose only container is not the self-cleanup one.
ManualCronJob ==
    [name |-> "test-cj", namespace |-> "default",
     labels |-> (LabelManagedBy :> LabelManagedByValue)
                @@ (LabelRelease :> "test"),
     annotations |-> {}, uid |-> "",
     spec |->
       [schedule |-> <<"0", "12", "1", "1", "*">>,
        concurrencyPolicy |-> "", failedJobsHistoryLimit |-> 0,
        successfulJobsHistoryLimit |-> 0,
        jobTemplate |->
          [labels |-> <<>>,
           spec |->
             [backoffLimit |-> 0,
              template |->
                [labels |-> <<>>,
                 spec |->
                   [serviceAccountName |-> "", restartPolicy |-> "",
                    initContainers |-> <<>>,
                    containers |-> <<[name |-> "not-self-cleanup",
                                      image |-> "nginx:latest",
                                      command |-> <<"nginx">>]>>]]]]]]

\* The CronJobs BuildJobFromCronJob is applied to on its own.
CodecCronJobs ==
    {ManualCronJob}
    \cup {BuildCronJob(opts).cj :
             opts \in {o \in CodecCronJobOptions : BuildCronJob(o).err = Nil}}

CodecInputs ==
    {CodecInput("names", <<a, b>>) : a \in NamePairs, b \in NamePairs}
    \cup {CodecInput("options", opts) : opts \in CodecCronJobOptions}
    \cup {CodecInput("cronjob", [cj |-> cj, jobName |-> cj.name \o "-run"]) :
             cj \in CodecCronJobs}
    \cup {CodecInput("instant", f) : f \in CodecInstants}
    \cup {CodecInput("duration", d) : d \in CodecDurations}

InitCodec ==
    /\ ClusterIs(EmptyCluster)
    /\ run = IdleRun
    /\ ret \in CodecInputs
    /\ ops = 0

\* ResourceName applied to two (release, namespace) pairs.
ApplyResourceName ==
    /\ ret.op = "input"
    /\ ret.kind = "names"
    /\ ret' = CodecOutput("ResourceName", ret.input,
                          <<ResourceName(ret.input[1].releaseName,
                                         ret.input[1].releaseNamespace),
                            ResourceName(ret.input[2].releaseName,
                                         ret.input[2].releaseNamespace)>>)
    /\ ops' = ops + 1
    /\ UNCHANGED <<clusterVars, run>>

\* TimeToCronSchedule applied to an instant, and ParseCronSchedule to the
\* schedule it returned.
ApplyScheduleRoundTrip ==
    /\ ret.op = "input"
    /\ ret.kind = "instant"
    /\ LET schedule == TimeToCronSchedule(InstantAt(ret.input))
       IN ret' = CodecOutput("ScheduleRoundTrip", ret.input,
                             [schedule |-> schedule,
                              parsed |-> ParseCronSchedule(schedule)])
    /\ ops' = ops + 1
    /\ UNCHANGED <<clusterVars, run>>

\* ParseTimeInput applied to a duration text at the instant Now.
ApplyParseTimeInput ==
    /\ ret.op = "input"
    /\ ret.kind = "duration"
    /\ ret' = CodecOutput("ParseTimeInput", ret.input,
                          ParseTimeInput(ret.input, Now))
    /\ ops' = ops + 1
    /\ UNCHANGED <<clusterVars, run>>

\* BuildCronJob applied to options.
ApplyBuildCronJob ==
    /\ ret.op = "input"
    /\ ret.kind = "options"
    /\ ret' = CodecOutput("BuildCronJob", ret.input, BuildCronJob(ret.input))
    /\ ops' = ops + 1
    /\ UNCHANGED <<clusterVars, run>>

\* BuildJobFromCronJob applied to a CronJob and a Job name.
ApplyBuildJobFromCronJob ==
    /\ ret.op = "input"
    /\ ret.kind = "cronjob"
    /\ ret' = CodecOutput("BuildJobFromCronJob", ret.input,
                          BuildJobFromCronJob(ret.input.cj, ret.input.jobName))
    /\ ops' = ops + 1
    /\ UNCHANGED <<clusterVars, run>>

NextCodec ==
    \/ ApplyResourceName
    \/ ApplyBuildCronJob
    \/ ApplyBuildJobFromCronJob
    \/ ApplyScheduleRoundTrip
    \/ ApplyParseTimeInput

SpecCodec == InitCodec /\ [][NextCodec]_vars

(***************************************************************************)
(* The orphan sweep alone, on stores holding live and orphaned bundles     *)
(***************************************************************************)
\* A SetTTL with CreateServiceAccount for the stored release "myapp": a
\* CronJob with its bundle.
LiveSetups ==
    {opts \in AccessSetTTLOptions :
        /\ opts.ReleaseName = "myapp"
        /\ opts.CreateServiceAccount
        /\ ~(opts.DeleteNamespace
             /\ opts.ReleaseNamespace = opts.CronjobNamespace)}

\* A bundle without a CronJob, for the release "ghost".
OrphanSetups ==
    {args \in [releaseName : {"ghost"}, releaseNamespace : ReleaseNamespaces,
               cronjobNamespace : CronjobNamespaces,
               serviceAccountName : {"ghost-staging-ttl"},
               deleteNamespace : BOOLEAN] :
        ~(args.deleteNamespace
          /\ args.releaseNamespace = args.cronjobNamespace)}

\* The store after the successful calls of a setup: at most one SetTTL, then
\* at most one CreateServiceAccountAndRBAC.
SweepStores ==
    LET lives == {EmptyCluster}
                 \cup {SetTTLOutcome(EmptyCluster, opts, {}).c :
                          opts \in LiveSetups}
    IN lives
       \cup {CreateServiceAccountAndRBAC(c, args.releaseName,
                 args.releaseNamespace, args.cronjobNamespace,
                 args.serviceAccountName, args.deleteNamespace, {}).c :
                c \in lives, args \in OrphanSetups}

InitSweep ==
    /\ \E c \in SweepStores : ClusterIs(c)
    /\ run = IdleRun
    /\ ret = NoReturn
    /\ ops = 0

SweepFaults == OneOf({"delete roles", "list roles"})

NextSweep ==
    /\ ops < MaxSweeps
    /\ \E args \in FindOrphansArgs, fault \in SweepFaults :
          FindOrphans(args, fault)

SpecSweep == InitSweep /\ [][NextSweep]_vars

(***************************************************************************)
(* The execution engine under fairness                                     *)
(***************************************************************************)
LiveFaults == OneOf({"list pods", "get pods", "delete jobs", "get logs"})

\* The stores a SetTTL with createServiceAccount leaves for "myapp".
InitLive ==
    /\ \E opts \in LiveSetups : ClusterIs(SetTTLOutcome(EmptyCluster, opts, {}).c)
    /\ run = IdleRun
    /\ ret = NoReturn
    /\ ops = 0

NextLive ==
    \/ /\ ops < MaxLiveRuns
       /\ \E ns \in ReleaseNamespaces, cjns \in CronjobNamespaces,
             fault \in LiveFaults : RunTTLBegin("myapp", ns, cjns, fault)
    \/ \E inject \in BOOLEAN : PodAppears(inject)
    \/ \E code \in ExitCodes : ContainerTerminates(code)
    \/ ContextDone
    \/ waitForPod
    \/ waitForContainerTermination
    \/ RunTTLCleanup
    \/ GarbageCollect

\* The engine with its own steps taken whenever they stay possible, and with
\* a caller whose context ends at some time.
SpecRunLive ==
    /\ InitLive
    /\ [][NextLive]_vars
    /\ WF_vars(waitForPod)
    /\ WF_vars(waitForContainerTermination)
    /\ WF_vars(RunTTLCleanup)
    /\ WF_vars(ContextDone)

(***************************************************************************)
(* The execution engine next to another caller's SetTTL                    *)
(***************************************************************************)
\* SetTTL options that differ in the namespace of the CronJob and, where the
\* namespaces differ, in the delete-namespace flag.
RelabelSetups == {opts \in LiveSetups : opts.ServiceAccount = "default"}

\* Another caller's SetTTL for the release of the run, while the run waits.
OtherSetTTL(opts) ==
    /\ run.pc \in {"waitForPod", "waitForContainerTermination"}
    /\ opts.ReleaseName = run.ReleaseName
    /\ opts.ReleaseNamespace = run.ReleaseNamespace
    /\ opts.CronjobNamespace = run.CronjobNamespace
    /\ LET out == SetTTLOutcome(Cluster, opts, {})
       IN /\ out.err = Nil
          /\ out.c # Cluster
          /\ SetCluster(out.c)
    /\ UNCHANGED <<run, ret, ops>>

InitRelabel ==
    /\ \E opts \in RelabelSetups :
          ClusterIs(SetTTLOutcome(EmptyCluster, opts, {}).c)
    /\ run = IdleRun
    /\ ret = NoReturn
    /\ ops = 0

NextRelabel ==
    \/ /\ ops < MaxRelabelRuns
       /\ \E ns \in ReleaseNamespaces, cjns \in CronjobNamespaces,
             fault \in OneOf({"delete namespaces"}) :
             RunTTLBegin("myapp", ns, cjns, fault)
    \/ \E opts \in RelabelSetups : OtherSetTTL(opts)
    \/ PodAppears(FALSE)
    \/ \E code \in ExitCodes : ContainerTerminates(code)
    \/ ContextDone
    \/ waitForPod
    \/ waitForContainerTermination
    \/ RunTTLCleanup
    \/ GarbageCollect

SpecRelabel == InitRelabel /\ [][NextRelabel]_vars

(***************************************************************************)
(* The access provisioner called again after a failure                     *)
(***************************************************************************)
\* The create calls of the provisioner, one of which may fail: every call of
\* a kind, or the calls for roles and bindings in the namespace "ops".
ReprovisionFaults ==
    OneOf({"create serviceaccounts", "create roles", "create rolebindings",
           "create roles/ops", "create rolebindings/ops",
           "create clusterroles", "create clusterrolebindings"})

NextReprovision ==
    /\ ops < MaxProvisions
    /\ \E args \in ProvisionArgs, fault \in ReprovisionFaults :
          Provision(args, fault)

SpecReprovision == Init /\ [][NextReprovision]_vars

(***************************************************************************)
(* CleanupOrphaned when the CronJob lookup cannot answer                   *)
(***************************************************************************)
\* A managed Role whose labels name a release and namespace from which no
\* resource name can be derived.
UnnamableRole ==
    [name |-> "ttl-sa", namespace |-> "staging",
     labels |-> resourceLabels(OverRelease, "staging"), uid |-> ServerUID,
     rules |-> <<SecretsRule>>]

\* The stores of the sweep, with and without the unnamable Role.
LookupStores ==
    SweepStores \cup {[c EXCEPT !.roles = @ \cup {UnnamableRole}] :
                         c \in SweepStores}

InitLookup ==
    /\ \E c \in LookupStores : ClusterIs(c)
    /\ run = IdleRun
    /\ ret = NoReturn
    /\ ops = 0

LookupFaults == OneOf({"get cronjobs"})

NextLookup ==
    /\ ops < MaxSweeps
    /\ \E args \in FindOrphansArgs, fault \in LookupFaults :
          FindOrphans(args, fault)

SpecLookup == InitLookup /\ [][NextLookup]_vars

(***************************************************************************)
(* CleanupOrphaned while a SetTTL call is in progress                      *)
(***************************************************************************)
\* The SetTTL call that runs next to the sweep.
SweptSetOptions ==
    {opts \in RaceOptions : /\ opts.CreateServiceAccount
                            /\ opts.Duration.unit = "m"}

\* The SetTTL calls that returned before: one for a release that is not
\* stored, which fails and leaves the empty store, and one that stored a
\* CronJob with its bundle.
EarlierSetOptions ==
    {[opts EXCEPT !.ReleaseName = "ghost"] : opts \in SweptSetOptions}
    \cup {opts \in RaceOptions : /\ opts.CreateServiceAccount
                                 /\ opts.Duration.unit = "d"}

\* CleanupOrphaned without dryRun runs between two steps of the SetTTL
\* call; exposed: a sweep ran after the call's service account step and
\* before its write of the CronJob.
FindOrphansDuringSet(args) ==
    /\ ret.op = "SetTTLRace"
    /\ LET out == CleanupOrphaned(Cluster, args.namespaces, args.allNamespaces,
                                  FALSE, {})
       IN SetCluster(out.c)
    /\ ret' = [ret EXCEPT
                 !.exposed = @ \/ ret.calls[1].pc \in {"get", "write"}]
    /\ ops' = ops + 1
    /\ UNCHANGED run

InitSweepRace ==
    /\ \E a \in SweptSetOptions, e \in EarlierSetOptions :
          LET before == SetTTLOutcome(EmptyCluster, e, {})
          IN /\ ClusterIs(before.c)
             /\ ret = [op |-> "SetTTLRace",
                       calls |-> <<RaceCall(a),
                                   [RaceCall(e) EXCEPT !.pc = "done",
                                                       !.err = before.err]>>,
                       exposed |-> FALSE]
    /\ run = IdleRun
    /\ ops = 0

NextSweepRace ==
    \/ SetTTLBegin(1)
    \/ SetTTLGet(1)
    \/ \E enforce \in BOOLEAN : SetTTLWrite(1, enforce)
    \/ /\ ops < MaxSweeps
       /\ \E args \in {a \in FindOrphansArgs : ~a.dryRun} :
             FindOrphansDuringSet(args)

SpecSweepRace == InitSweepRace /\ [][NextSweepRace]_vars

(***************************************************************************)
(* RunTTL called again while a run Job is stored                           *)
(***************************************************************************)
\* Another caller's RunTTL while the run is in progress: it goes as far as
\* its Job creation allows; the namespace it was called for and the error
\* it returns are kept next to the return value of the run.
OtherRunTTL(releaseName, releaseNamespace, cronjobNamespace) ==
    /\ ~Idle
    /\ LET out == RunTTLBeginOutcome(Cluster, releaseName, releaseNamespace,
                                     cronjobNamespace, {})
       IN /\ ~out.created
          /\ SetCluster(out.c)
          /\ ret' = ("other" :> [CronjobNamespace |-> cronjobNamespace,
                                  err |-> out.err]) @@ ret
    /\ ops' = ops + 1
    /\ UNCHANGED run

RerunFaults == OneOf({"delete jobs"})

NextRerun ==
    \/ /\ ops < MaxReruns
       /\ \E cjns \in CronjobNamespaces, fault \in RerunFaults :
             RunTTLBegin("myapp", "staging", cjns, fault)
    \/ /\ ops < MaxReruns
       /\ \E cjns \in CronjobNamespaces :
             OtherRunTTL("myapp", "staging", cjns)
    \/ /\ ops < MaxReruns
       /\ \E cjns \in CronjobNamespaces :
             UnsetTTL("myapp", "staging", cjns, {})
    \/ PodAppears(FALSE)
    \/ \E code \in ExitCodes : ContainerTerminates(code)
    \/ ContextDone
    \/ waitForPod
    \/ waitForContainerTermination
    \/ RunTTLCleanup
    \/ GarbageCollect

SpecRerun == InitRelabel /\ [][NextRerun]_vars

(***************************************************************************)
(* Properties of the execution engine (checked under SpecRun)              *)
(***************************************************************************)
\* RunTTL has returned from an invocation that created its Job.
RunReturned == ret.op = "RunTTL" /\ run.pc = "done" /\ run.jobCreated

\* The name shared by the CronJob and the access bundle of the run's release.
RunResourceName == ResourceNameOf(run.ReleaseName, run.ReleaseNamespace)

\* The error the polling calls for: the polling error, else "job failed" when
\* a recorded exit code is non-zero, else none.
PollingError ==
    IF run.runErr # Nil THEN run.runErr
    ELSE IF \E i \in DOMAIN run.result.ContainerResults :
               run.result.ContainerResults[i].ExitCode # 0
    THEN "JobFailed"
    ELSE Nil

\* The result the polling calls for.
PollingResult ==
    [nil |-> FALSE, ReleaseName |-> run.ReleaseName,
     ReleaseNamespace |-> run.ReleaseNamespace,
     DeletedNamespace |-> run.deleteNamespace,
     JobFailed |-> \E i \in DOMAIN run.result.ContainerResults :
                      run.result.ContainerResults[i].ExitCode # 0,
     ContainerResults |-> run.result.ContainerResults]

\* The deletion of the release namespace was attempted and failed with an
\* error other than NotFound.
NamespaceDeleteFailed ==
    run.deleteNamespace /\ "delete namespaces" \in run.fault

\* No Role, RoleBinding, ClusterRole, ClusterRoleBinding or ServiceAccount of
\* the run's release is stored under the shared name.
NoBundleObjects ==
    /\ \A ns \in {run.ReleaseNamespace, run.CronjobNamespace} :
          /\ ~Has(roles, ns, RunResourceName)
          /\ ~Has(roleBindings, ns, RunResourceName)
    /\ ~Has(clusterRoles, "", RunResourceName)
    /\ ~Has(clusterRoleBindings, "", RunResourceName)
    /\ ~Has(serviceAccounts, run.CronjobNamespace, RunResourceName)

\* C1: once the Job was created, RunTTL returns only after its cleanup ran,
\* whatever the polling did and whether or not the caller's context is done:
\* the Job deletion and CleanupRBAC were attempted, and so was the deletion
\* of the release namespace when the CronJob is labelled delete-namespace;
\* each of them took effect unless its own API call failed.
CleanupAlwaysRuns ==
    RunReturned =>
       /\ {"delete jobs", "CleanupRBAC"} \subseteq run.calls
       /\ run.deleteNamespace => "delete namespaces" \in run.calls
       /\ "delete jobs" \notin run.fault
             => ~Has(jobs, run.CronjobNamespace, run.jobName)
       /\ "delete rolebindings" \notin run.fault => NoBundleObjects
       /\ (run.deleteNamespace /\ "delete namespaces" \notin run.fault)
             => run.ReleaseNamespace \notin namespaces

\* C1 witness: a run whose pod never appeared and whose context ran out has
\* returned, for a CronJob labelled delete-namespace.
CleanupAfterTimeoutReached ==
    /\ RunReturned
    /\ run.ctxDone
    /\ run.runErr = "PodWaitTimeout"
    /\ run.deleteNamespace
    /\ run.ReleaseNamespace \notin namespaces

\* C2 as claimed: after RunTTL returns from a run that created its Job and
\* met no API failure, the CronJob, the Job and the access bundle of the
\* release are gone.
NothingLeftAfterRun ==
    (RunReturned /\ run.fault = {}) =>
       /\ ~Has(cronjobs, run.CronjobNamespace, RunResourceName)
       /\ ~Has(jobs, run.CronjobNamespace, run.jobName)
       /\ NoBundleObjects

CleanupStepFailed ==
    \/ "delete jobs" \in run.fault
    \/ "delete rolebindings" \in run.fault
    \/ NamespaceDeleteFailed

JobCreateFailureReturnsAtOnce ==
    [][(ops' = ops + 1 /\ ret'.op = "RunTTL" /\ ret'.err = "CreateJobFailed")
         => /\ UNCHANGED clusterVars
            /\ ret'.result = NilResult
            /\ run'.pc = "done"
            /\ ~run'.jobCreated
            /\ run'.calls = {}]_vars

\* C5 witness: the Job creation failed for a release whose bundle is stored.
JobCreateFailureReached ==
    /\ ret.op = "RunTTL"
    /\ ret.err = "CreateJobFailed"
    /\ run.pc = "done"
    /\ Has(roles, run.ReleaseNamespace, RunResourceName)
    /\ Has(cronjobs, run.CronjobNamespace, RunResourceName)

SetReturns == ops' = ops + 1 /\ ret'.op = "SetTTL"

\* The name of the CronJob the last operation was called for.
RetResourceName == ResourceNameOf(ret.ReleaseName, ret.ReleaseNamespace)

\* The CronJobs stored under the key the last operation was called for.
RetCronJobs ==
    {cj \in cronjobs : cj.namespace = ret.CronjobNamespace
                       /\ cj.name = RetResourceName}

\* The schedule a duration asks for.
ScheduleOf(duration) ==
    TimeToCronSchedule(Now + duration.n * UnitMinutes(duration.unit))

\* The checks SetTTL makes on its input pass in the current store.
SetPreconditions(opts) ==
    /\ opts.ReleaseName \in StoredReleases
    /\ ~(opts.DeleteNamespace /\ opts.ReleaseNamespace = opts.CronjobNamespace)
    /\ opts.Duration.unit \in {"m", "h", "d"}
    /\ opts.Duration.n > 0
    /\ Len(ResourceNameOf(opts.ReleaseName, opts.ReleaseNamespace))
          <= maxResourceNameLen
    /\ \/ opts.CreateServiceAccount
       \/ Has(serviceAccounts, opts.CronjobNamespace, opts.ServiceAccount)

\* C7: a SetTTL that fails because the release does not exist, because
\* delete-namespace is asked for with the CronJob in the release namespace,
\* because the duration is invalid or because the resource name is too long
\* has written nothing: every stored object is as it was before the call.
PreconditionFailureWritesNothing ==
    [][(SetReturns
        /\ ret'.err \in {"ReleaseNotFound", "NamespaceConflict",
                         "InvalidDuration", "NameTooLong"})
         => UNCHANGED clusterVars]_vars

\* C7 witness: a SetTTL with an invalid duration returned for a release whose
\* CronJob and bundle are stored.
InvalidDurationRejectedReached ==
    /\ ret.op = "SetTTL"
    /\ ret.err = "InvalidDuration"
    /\ ret.existed
    /\ Has(roles, ret.ReleaseNamespace, RetResourceName)

\* C8: a SetTTL for a release whose CronJob is stored does not fail when its
\* input checks pass and no API call fails; and after every successful
\* SetTTL exactly one CronJob is stored under the resource name in the
\* CronJob namespace, with the schedule of that call.
SetReplacesSchedule ==
    [][/\ (SetReturns /\ ret'.existed /\ ret'.err # Nil)
             => \A opts \in SetTTLOptions :
                   ~(/\ opts.ReleaseName = ret'.ReleaseName
                     /\ opts.ReleaseNamespace = ret'.ReleaseNamespace
                     /\ opts.CronjobNamespace = ret'.CronjobNamespace
                     /\ opts.Duration = ret'.Duration
                     /\ SetPreconditions(opts)
                     /\ SetTTL(opts, {}))
       /\ (SetReturns /\ ret'.err = Nil)
             => /\ Cardinality(RetCronJobs') = 1
                /\ \A cj \in RetCronJobs' :
                      cj.spec.schedule = ScheduleOf(ret'.Duration)]_vars

\* C8 witness: a SetTTL asking for 7 days succeeded on a stored CronJob.
RescheduleReached ==
    /\ ret.op = "SetTTL"
    /\ ret.err = Nil
    /\ ret.existed
    /\ ret.Duration = [n |-> 7, unit |-> "d"]
    /\ Cardinality(RetCronJobs) = 1

UpdateKeepsIdentity ==
    [][(SetReturns /\ ret'.err = Nil /\ ret'.existed)
         => \A old \in {cj \in cronjobs :
                           cj.namespace = ret'.CronjobNamespace
                           /\ cj.name = ResourceNameOf(ret'.ReleaseName,
                                                       ret'.ReleaseNamespace)} :
               \E new \in cronjobs' :
                  /\ new.name = old.name
                  /\ new.namespace = old.namespace
                  /\ new.uid = old.uid
                  /\ new.annotations = old.annotations
                  /\ new = [old EXCEPT !.spec = new.spec, !.labels = new.labels]
                  /\ new.spec.schedule = ScheduleOf(ret'.Duration)]_vars

\* C10 witness: a SetTTL succeeded on a stored CronJob that another client
\* had annotated, and changed its delete-namespace label.
AnnotatedCronJobUpdatedReached ==
    /\ ret.op = "SetTTL"
    /\ ret.err = Nil
    /\ ret.existed
    /\ \E cj \in RetCronJobs :
          /\ cj.annotations # {}
          /\ cj.uid = ServerUID
          /\ cj.labels[LabelDeleteNamespace] = "true"
(***************************************************************************)
(* Properties of SetTTL's service account check                            *)
(***************************************************************************)
\* SetTTL reached the service account step: the release is stored, the
\* namespaces are compatible, the duration parses and the name fits.
PassesValidation(opts) ==
    /\ opts.ReleaseName \in StoredReleases
    /\ ~(opts.DeleteNamespace /\ opts.ReleaseNamespace = opts.CronjobNamespace)
    /\ ParseTimeInput(opts.Duration, Now).err = Nil
    /\ ResourceName(opts.ReleaseName, opts.ReleaseNamespace).err = Nil

\* C11: a SetTTL that is not asked to create the service account and finds
\* none of that name in cronjobNamespace returns ServiceAccountNotFound, any
\* other failure of the lookup is returned as a check failure, and in both
\* cases the CronJobs (and everything else stored) are left as they were.
MissingServiceAccountRejected ==
    [][\A opts \in AccessSetTTLOptions, fault \in AccessSetFaults :
          (/\ ret'.op = "SetTTL"
           /\ ret'.ReleaseName = opts.ReleaseName
           /\ ret'.CronjobNamespace = opts.CronjobNamespace
           /\ ~opts.CreateServiceAccount
           /\ PassesValidation(opts)
           /\ SetTTL(opts, fault))
          => /\ ("get serviceaccounts" \in fault)
                   <=> (ret'.err = "ServiceAccountCheckFailed")
             /\ ("get serviceaccounts" \notin fault
                 /\ ~Has(serviceAccounts, opts.CronjobNamespace,
                         opts.ServiceAccount))
                   <=> (ret'.err = "ServiceAccountNotFound")
             /\ ret'.err \in {"ServiceAccountCheckFailed",
                              "ServiceAccountNotFound"}
                   => UNCHANGED clusterVars]_vars

\* SetTTL returned ServiceAccountNotFound for a stored release.
MissingServiceAccountReached ==
    /\ ret.op = "SetTTL"
    /\ ret.err = "ServiceAccountNotFound"
    /\ ret.ReleaseName \in StoredReleases

(***************************************************************************)
(* Properties of UnsetTTL on a stored CronJob                              *)
(***************************************************************************)
\* No Role or RoleBinding of the release is left in either namespace.
NoNamespacedAccess(R, RB, rel, ns, cjns) ==
    \A n \in {ns, cjns} :
       /\ ~Has(R, n, ResourceNameOf(rel, ns))
       /\ ~Has(RB, n, ResourceNameOf(rel, ns))

\* C12: UnsetTTL on a release whose CronJob is stored deletes the CronJob
\* before anything else (a failed deletion leaves the store as it was), then
\* runs CleanupRBAC, and returns success exactly when the CronJob deletion
\* succeeded, whatever CleanupRBAC returned.
UnsetSucceedsWhenCronJobDeleted ==
    [][\A fault \in UnsetFaults :
          (/\ ret'.op = "UnsetTTL"
           /\ ops' = ops + 1
           /\ ret'.existed
           /\ UnsetTTL(ret'.ReleaseName, ret'.ReleaseNamespace,
                       ret'.CronjobNamespace, fault))
          => /\ (ret'.err = Nil) <=> ("delete cronjobs" \notin fault)
             /\ ret'.err = Nil
                   <=> ~Has(cronjobs', ret'.CronjobNamespace,
                            ResourceNameOf(ret'.ReleaseName,
                                           ret'.ReleaseNamespace))
             /\ ret'.err # Nil
                   => /\ ret'.err = "DeleteCronJobFailed"
                      /\ UNCHANGED clusterVars
             /\ (ret'.err = Nil /\ "delete roles" \notin fault)
                   => NoNamespacedAccess(roles', roleBindings',
                                         ret'.ReleaseName,
                                         ret'.ReleaseNamespace,
                                         ret'.CronjobNamespace)
             /\ ret'.err = Nil
                   => ~Has(roleBindings', ret'.ReleaseNamespace,
                           ResourceNameOf(ret'.ReleaseName,
                                          ret'.ReleaseNamespace))]_vars

\* UnsetTTL returned success although CleanupRBAC failed and left a Role.
UnsetIgnoredTeardownFailureReached ==
    /\ ret.op = "UnsetTTL"
    /\ ret.existed
    /\ ret.err = Nil
    /\ Has(roles, ret.ReleaseNamespace,
           ResourceNameOf(ret.ReleaseName, ret.ReleaseNamespace))

(***************************************************************************)
(* Properties of GetTTL, UnsetTTL and RunTTL without a stored CronJob      *)
(***************************************************************************)
\* C13: when no CronJob named ResourceName is stored in cronjobNamespace,
\* GetTTL, UnsetTTL and RunTTL each return TTLNotFound (or the error of the
\* failed API call) and leave the store as it was: no teardown, no Job.
NotFoundChangesNothing ==
    [][(/\ ops' = ops + 1
        /\ ret'.op \in {"GetTTL", "UnsetTTL", "RunTTL"}
        /\ ~ret'.existed
        /\ ResourceName(ret'.ReleaseName, ret'.ReleaseNamespace).err = Nil)
       => /\ UNCHANGED clusterVars
          /\ ~run'.jobCreated
          /\ run'.pc \in {"idle", "done"}
          /\ ret'.result = NilResult
          /\ ret'.info = NilInfo
          /\ ret'.err \in {"TTLNotFound", "GetCronJobFailed",
                           "DeleteCronJobFailed"}
          /\ (/\ ret'.op = "GetTTL"
              /\ ret'.err # "TTLNotFound")
                => ~GetTTL(ret'.ReleaseName, ret'.ReleaseNamespace,
                           ret'.CronjobNamespace, {})
          /\ (/\ ret'.op = "UnsetTTL"
              /\ ret'.err # "TTLNotFound")
                => ~UnsetTTL(ret'.ReleaseName, ret'.ReleaseNamespace,
                             ret'.CronjobNamespace, {})
          /\ (/\ ret'.op = "RunTTL"
              /\ ret'.err # "TTLNotFound")
                => ~RunTTLBegin(ret'.ReleaseName, ret'.ReleaseNamespace,
                                ret'.CronjobNamespace, {})]_vars

\* UnsetTTL returned TTLNotFound while roles of an access bundle are stored.
UnsetNotFoundWithBundleReached ==
    /\ ret.op = "UnsetTTL"
    /\ ~ret.existed
    /\ ret.err = "TTLNotFound"
    /\ roles # {}

(***************************************************************************)
(* deleteNamespace requires cronjobNamespace # releaseNamespace            *)
(***************************************************************************)
\* BuildCronJob rejects deleteNamespace with equal namespaces.
BuildCronJobRejectsConflict ==
    \A opts \in AccessSetTTLOptions :
       (opts.DeleteNamespace /\ opts.ReleaseNamespace = opts.CronjobNamespace)
          => BuildCronJob([ReleaseName |-> opts.ReleaseName,
                           ReleaseNamespace |-> opts.ReleaseNamespace,
                           CronjobNamespace |-> opts.CronjobNamespace,
                           Schedule |-> "0 0 1 1 *",
                           ServiceAccount |-> opts.ServiceAccount,
                           HelmImage |-> opts.HelmImage,
                           KubectlImage |-> opts.KubectlImage,
                           DeleteNamespace |-> TRUE]).err = "NamespaceConflict"

\* No stored CronJob deletes the namespace it lives in, and no cluster-scoped
\* binding grants to a service account in the release's own namespace.
NoSelfDeletingCronJob ==
    /\ \A cj \in cronjobs :
          cj.labels[LabelDeleteNamespace] = "true"
             => cj.namespace # cj.labels[LabelReleaseNamespace]
    /\ \A b \in clusterRoleBindings :
          \A i \in 1..Len(b.subjects) :
             b.subjects[i].namespace # b.labels[LabelReleaseNamespace]

Accepted(args) ==
    /\ ~(args.deleteNamespace /\ args.releaseNamespace = args.cronjobNamespace)
    /\ ResourceName(args.releaseName, args.releaseNamespace).err = Nil

\* The access bundle requested by args, as stored objects.
ExpectedBundle(args) ==
    LET name == ResourceNameOf(args.releaseName, args.releaseNamespace)
        labels == ("app.kubernetes.io/managed-by" :> "helm-ttl")
                  @@ ("helm-ttl/release" :> args.releaseName)
                  @@ ("helm-ttl/release-namespace" :> args.releaseNamespace)
        meta(ns) == [name |-> name, namespace |-> ns, labels |-> labels,
                     uid |-> ServerUID]
        subject == [kind |-> "ServiceAccount",
                    name |-> args.serviceAccountName,
                    namespace |-> args.cronjobNamespace]
        secrets == [apiGroups |-> <<"">>, resources |-> <<"secrets">>,
                    verbs |-> <<"get", "list", "delete">>]
        cronjobsRule == [apiGroups |-> <<"batch">>, resources |-> <<"cronjobs">>,
                         verbs |-> <<"get", "delete">>]
        namespacesRule == [apiGroups |-> <<"">>, resources |-> <<"namespaces">>,
                           verbs |-> <<"get", "delete">>]
        role(ns, rules) == meta(ns) @@ [rules |-> rules]
        binding(ns, kind) ==
            meta(ns) @@ [subjects |-> <<subject>>,
                         roleRef |-> [apiGroup |-> "rbac.authorization.k8s.io",
                                      kind |-> kind, name |-> name]]
        same == args.releaseNamespace = args.cronjobNamespace
    IN [serviceAccounts |->
           {[name |-> args.serviceAccountName,
             namespace |-> args.cronjobNamespace, labels |-> labels,
             uid |-> ServerUID]},
        roles |->
           IF same
           THEN {role(args.releaseNamespace, <<secrets, cronjobsRule>>)}
           ELSE {role(args.releaseNamespace, <<secrets>>),
                 role(args.cronjobNamespace, <<cronjobsRule>>)},
        roleBindings |->
           IF same THEN {binding(args.releaseNamespace, "Role")}
           ELSE {binding(args.releaseNamespace, "Role"),
                 binding(args.cronjobNamespace, "Role")},
        clusterRoles |->
           IF ~same /\ args.deleteNamespace
           THEN {role("", <<namespacesRule>>)} ELSE {},
        clusterRoleBindings |->
           IF ~same /\ args.deleteNamespace
           THEN {binding("", "ClusterRole")} ELSE {}]

BundleKinds ==
    {"serviceAccounts", "roles", "roleBindings", "clusterRoles",
     "clusterRoleBindings"}

\* The store c with the objects of bundle b added.
WithBundle(c, b) ==
    [k \in DOMAIN c |-> IF k \in BundleKinds THEN c[k] \cup b[k] ELSE c[k]]

\* Every object of bundle b is stored in c, once under its key.
HoldsBundle(c, b) ==
    \A k \in BundleKinds :
       \A o \in b[k] :
          /\ o \in c[k]
          /\ Cardinality({x \in c[k] : x.namespace = o.namespace
                                       /\ x.name = o.name}) = 1

\* C15: CreateServiceAccountAndRBAC is idempotent: from every reachable
\* store, a call that succeeds succeeds again with the same arguments and
\* leaves the store of the first call, each object of the bundle stored once
\* with the requested labels, rules, subjects and role reference; a repeated
\* successful call changes nothing.
ProvisionIdempotent ==
    /\ [](\A args \in ProvisionArgs :
            LET p1 == CreateServiceAccountAndRBAC(Cluster, args.releaseName,
                         args.releaseNamespace, args.cronjobNamespace,
                         args.serviceAccountName, args.deleteNamespace, {})
                p2 == CreateServiceAccountAndRBAC(p1.c, args.releaseName,
                         args.releaseNamespace, args.cronjobNamespace,
                         args.serviceAccountName, args.deleteNamespace, {})
            IN p1.err = Nil
                  => /\ p2.err = Nil
                     /\ p2.c = p1.c
                     /\ HoldsBundle(p2.c, ExpectedBundle(args)))
    /\ [][(/\ ret'.op = "CreateServiceAccountAndRBAC"
           /\ ret'.again
           /\ ret'.err = Nil)
          => /\ UNCHANGED clusterVars
             /\ HoldsBundle(Cluster, ExpectedBundle(ret'.args))]_vars

\* CreateServiceAccountAndRBAC succeeded twice in a row with the same
\* cross-namespace arguments.
ProvisionRepeatedReached ==
    /\ ret.op = "CreateServiceAccountAndRBAC"
    /\ ret.again
    /\ ret.err = Nil
    /\ ret.args.deleteNamespace
    /\ HoldsBundle(Cluster, ExpectedBundle(ret.args))

\* C17: the objects CreateServiceAccountAndRBAC creates in an empty cluster
\* are those of the topology: same-namespace, one service account, one role
\* (secrets and cronjobs) and one binding; cross-namespace, the service
\* account in cronjobNamespace, a secrets role and binding in
\* releaseNamespace and a cronjobs role and binding in cronjobNamespace;
\* with deleteNamespace, one cluster role (namespaces) and one cluster
\* binding more; every binding's subject is the service account in
\* cronjobNamespace.
ProvisionFollowsTopology ==
    /\ \A args \in ProvisionArgs :
          Accepted(args)
             => CreateServiceAccountAndRBAC(EmptyCluster, args.releaseName,
                    args.releaseNamespace, args.cronjobNamespace,
                    args.serviceAccountName, args.deleteNamespace, {})
                = [c |-> WithBundle(EmptyCluster, ExpectedBundle(args)),
                   err |-> Nil]
    /\ (/\ ops = 1
        /\ ret.op = "CreateServiceAccountAndRBAC"
        /\ ret.err = Nil)
          => Cluster = WithBundle(EmptyCluster, ExpectedBundle(ret.args))

\* The first call created a cross-namespace bundle with the cluster role.
ProvisionFromEmptyReached ==
    /\ ops = 1
    /\ ret.op = "CreateServiceAccountAndRBAC"
    /\ ret.err = Nil
    /\ ret.args.deleteNamespace
    /\ clusterRoles # {}
    /\ Cardinality(roles) = 2

\* The objects of c stored under no key of bundle b.
OutsideBundle(c, b, k) ==
    {o \in c[k] : ~\E x \in b[k] : x.namespace = o.namespace /\ x.name = o.name}

\* C16 as stated: after CreateServiceAccountAndRBAC with arguments A and then
\* with other arguments B for the same release, the store is the one the
\* call with B alone leaves from the empty cluster.
ProvisionConverges ==
    (/\ ops = 2
     /\ ret.op = "CreateServiceAccountAndRBAC"
     /\ ret.changed
     /\ ret.err = Nil)
       => Cluster = WithBundle(EmptyCluster, ExpectedBundle(ret.args))

\* C16, amended: a successful CreateServiceAccountAndRBAC leaves every
\* object of the bundle it was asked for stored once with the requested
\* labels, rules, subjects and role reference, and leaves every object
\* stored under another key (an earlier call's other namespace, service
\* account name or cluster-scoped objects) as it was.
ProvisionUpsertsRequestedBundle ==
    [][(/\ ret'.op = "CreateServiceAccountAndRBAC"
        /\ ret'.err = Nil)
       => /\ HoldsBundle(Cluster', ExpectedBundle(ret'.args))
          /\ \A k \in BundleKinds :
                OutsideBundle(Cluster', ExpectedBundle(ret'.args), k)
                = OutsideBundle(Cluster, ExpectedBundle(ret'.args), k)
          /\ UNCHANGED <<cronjobs, jobs, pods, namespaces>>]_vars

\* A second call for the same release with other arguments succeeded and
\* objects of the first call remain next to the requested bundle.
ProvisionChangedKeepsOldReached ==
    /\ ops = 2
    /\ ret.op = "CreateServiceAccountAndRBAC"
    /\ ret.changed
    /\ ret.err = Nil
    /\ HoldsBundle(Cluster, ExpectedBundle(ret.args))
    /\ Cluster # WithBundle(EmptyCluster, ExpectedBundle(ret.args))

(***************************************************************************)
(* Properties of CleanupRBAC                                               *)
(***************************************************************************)
\* No object of bundle b can be retrieved from the store c.
NoneOfBundle(c, b) ==
    \A k \in BundleKinds :
       \A o \in b[k] : ~Has(c[k], o.namespace, o.name)

\* C18: after a successful CleanupRBAC for the release and namespaces of the
\* successful CreateServiceAccountAndRBAC before it, none of the objects that
\* call created can be retrieved, whatever service account name it was given.
TeardownRemovesBundle ==
    [][(/\ ret.op = "CreateServiceAccountAndRBAC"
        /\ ret.err = Nil
        /\ ret'.op = "CleanupRBAC"
        /\ ret'.err = Nil
        /\ ret'.args.releaseName = ret.args.releaseName
        /\ ret'.args.releaseNamespace = ret.args.releaseNamespace
        /\ ret'.args.cronjobNamespace = ret.args.cronjobNamespace)
       => NoneOfBundle(Cluster', ExpectedBundle(ret.args))]_vars

\* The subsets of a bundle, as bundles.
SubBundles(b) ==
    [serviceAccounts : SUBSET b.serviceAccounts, roles : SUBSET b.roles,
     roleBindings : SUBSET b.roleBindings, clusterRoles : SUBSET b.clusterRoles,
     clusterRoleBindings : SUBSET b.clusterRoleBindings]

\* CleanupRBAC on the store c: it succeeds, leaves no object named
\* ResourceName in the collections and namespaces it deletes from, and a
\* second call succeeds and leaves the same store.
TeardownToleratesMissing(c, args) ==
    LET name == ResourceNameOf(args.releaseName, args.releaseNamespace)
        t1 == CleanupRBAC(c, args.releaseName, args.releaseNamespace,
                          args.cronjobNamespace, {})
        t2 == CleanupRBAC(t1.c, args.releaseName, args.releaseNamespace,
                          args.cronjobNamespace, {})
    IN /\ t1.err = Nil
       /\ ~Has(t1.c.clusterRoleBindings, "", name)
       /\ ~Has(t1.c.clusterRoles, "", name)
       /\ \A ns \in {args.releaseNamespace, args.cronjobNamespace} :
             /\ ~Has(t1.c.roleBindings, ns, name)
             /\ ~Has(t1.c.roles, ns, name)
       /\ ~Has(t1.c.serviceAccounts, args.cronjobNamespace, name)
       /\ t2 = t1

DryRunDeletesNothing ==
    /\ [](\A args \in FindOrphansArgs, fault \in FindOrphansFaults :
            args.dryRun
               => CleanupOrphaned(Cluster, args.namespaces,
                                  args.allNamespaces, TRUE, fault).c = Cluster)
    /\ [][(/\ ret'.op = "CleanupOrphaned"
           /\ ret'.args.dryRun)
          => UNCHANGED clusterVars]_vars

\* A dry run reported orphaned objects, which are still stored.
DryRunFoundOrphansReached ==
    /\ ret.op = "CleanupOrphaned"
    /\ ret.args.dryRun
    /\ ret.err = Nil
    /\ Len(ret.orphaned) > 0
    /\ \A i \in 1..Len(ret.orphaned) :
          Has(Cluster[KindField(ret.orphaned[i].Kind)],
              ret.orphaned[i].Namespace, ret.orphaned[i].Name)

\* The object carries the managed-by label of the plugin.
Managed(o) == LabelOf(o.labels, "app.kubernetes.io/managed-by") = "helm-ttl"

\* The namespaces a call of CleanupOrphaned scans.
Selected(args) ==
    IF args.allNamespaces THEN namespaces
    ELSE {args.namespaces[i] : i \in 1..Len(args.namespaces)}

\* The object is cluster-scoped or lives in a scanned namespace.
Scanned(o, args) == o.namespace = "" \/ o.namespace \in Selected(args)

\* The CronJob the labels of the object refer to is stored: named after the
\* release, in the cronjob-namespace label's namespace, or in the release
\* namespace when the object has no such label.
TaskStored(o) ==
    LET releaseNs == LabelOf(o.labels, "helm-ttl/release-namespace")
        cronjobNs == IF LabelOf(o.labels, "helm-ttl/cronjob-namespace") = ""
                     THEN releaseNs
                     ELSE LabelOf(o.labels, "helm-ttl/cronjob-namespace")
    IN Has(cronjobs, cronjobNs,
           ResourceNameOf(LabelOf(o.labels, "helm-ttl/release"), releaseNs))

BundleOf(cj, k) ==
    {o \in Cluster[k] :
        /\ Managed(o)
        /\ LabelOf(o.labels, "helm-ttl/release")
              = LabelOf(cj.labels, "helm-ttl/release")
        /\ LabelOf(o.labels, "helm-ttl/release-namespace")
              = LabelOf(cj.labels, "helm-ttl/release-namespace")}

\* The sweep result lists the object o of kind k.
Reported(orphaned, kind, o) ==
    \E i \in 1..Len(orphaned) :
       /\ orphaned[i].Kind = kind
       /\ orphaned[i].Name = o.name
       /\ orphaned[i].Namespace = o.namespace

SweepKinds ==
    {"ClusterRoleBinding", "ClusterRole", "RoleBinding", "Role",
     "ServiceAccount"}

\* C22: while the CronJob a SetTTL with CreateServiceAccount stored exists,
\* a CleanupOrphaned without dryRun over all namespaces reports no object of
\* the release's bundle as orphaned and deletes none of them, in the
\* same-namespace and in the cross-namespace topology.
SweepSparesLiveBundle ==
    [][(/\ ret'.op = "CleanupOrphaned"
        /\ ~ret'.args.dryRun
        /\ ret'.args.allNamespaces)
       => \A cj \in cronjobs :
             \A kind \in SweepKinds :
                \A o \in BundleOf(cj, KindField(kind)) :
                   /\ o \in Cluster'[KindField(kind)]
                   /\ ~Reported(ret'.orphaned, kind, o)]_vars

\* Every object a sweep removed from the store c is in its list.
DeletedAreReported(c, out) ==
    \A kind \in SweepKinds :
       \A o \in c[KindField(kind)] \ out.c[KindField(kind)] :
          Reported(out.orphaned, kind, o)

\* The sequence s is a prefix of the sequence t.
IsPrefix(s, t) == Len(s) <= Len(t) /\ \A i \in 1..Len(s) : s[i] = t[i]

\* C23 as stated: from the same store and namespace selection the list
\* CleanupOrphaned returns without dryRun equals the list it returns with
\* dryRun and contains every object the call deleted, also when the call
\* ends with an error.
SweepListSameInBothModes ==
    \A args \in FindOrphansArgs, fault \in SweepFaults :
       LET dry == CleanupOrphaned(Cluster, args.namespaces,
                                  args.allNamespaces, TRUE, fault)
           wet == CleanupOrphaned(Cluster, args.namespaces,
                                  args.allNamespaces, FALSE, fault)
       IN /\ wet.orphaned = dry.orphaned
          /\ DeletedAreReported(Cluster, wet)

\* C23, amended: when no API call fails the two lists are equal and hold
\* every deleted object; when a deletion fails the list without dryRun is
\* the dry-run list up to the object whose deletion failed and holds every
\* deleted object; when a list call fails no list is returned, whatever was
\* deleted before.
SweepListCompleteUnlessListFails ==
    \A args \in FindOrphansArgs, fault \in SweepFaults :
       LET dry == CleanupOrphaned(Cluster, args.namespaces,
                                  args.allNamespaces, TRUE, {})
           wet == CleanupOrphaned(Cluster, args.namespaces,
                                  args.allNamespaces, FALSE, fault)
       IN /\ wet.err \in {Nil, "DeleteFailed", "ListFailed"}
          /\ wet.err = Nil
                => /\ wet.orphaned = dry.orphaned
                   /\ DeletedAreReported(Cluster, wet)
          /\ wet.err = "DeleteFailed"
                => /\ wet.orphaned # <<>>
                   /\ IsPrefix(wet.orphaned, dry.orphaned)
                   /\ DeletedAreReported(Cluster, wet)
                   /\ LET last == wet.orphaned[Len(wet.orphaned)]
                      IN Has(wet.c[KindField(last.Kind)], last.Namespace,
                             last.Name)
          /\ wet.err = "ListFailed" => wet.orphaned = <<>>

\* A sweep without dryRun ended with a failed deletion after it had deleted
\* the first object of its list.
SweepFailedAfterDeletionsReached ==
    /\ ret.op = "CleanupOrphaned"
    /\ ~ret.args.dryRun
    /\ ret.err = "DeleteFailed"
    /\ Len(ret.orphaned) >= 2
    /\ ~Has(Cluster[KindField(ret.orphaned[1].Kind)],
            ret.orphaned[1].Namespace, ret.orphaned[1].Name)

(***************************************************************************)
(* Properties of ResourceName                                              *)
(***************************************************************************)
\* ResourceName returned a name for both pairs, and the pairs differ.
TwoNamesDerived ==
    /\ ret.op = "ResourceName"
    /\ ret.input[1] # ret.input[2]
    /\ ret.out[1].err = Nil
    /\ ret.out[2].err = Nil

\* C24 as stated: two distinct (release, namespace) pairs whose derived names
\* fit the length bound have different derived names.
ResourceNameInjective ==
    TwoNamesDerived => ret.out[1].name # ret.out[2].name

\* The names of NameParts without a hyphen.
HyphenFree == {"a", "c", "myapp", "staging"}

\* C24, amended: ResourceName is a function of the pair, and two distinct
\* pairs whose names fit have different names when they share the release
\* name or the namespace, or when neither release name (or neither
\* namespace) contains a hyphen; the name is the release, the namespace and
\* "ttl" joined by hyphens.
ResourceNameInjectiveWithoutHyphens ==
    ret.op = "ResourceName"
       => /\ \A i \in {1, 2} :
                /\ ret.out[i] = ResourceName(ret.input[i].releaseName,
                                             ret.input[i].releaseNamespace)
                /\ ret.out[i].err = Nil
                      => ret.out[i].name
                         = ret.input[i].releaseName \o "-"
                           \o ret.input[i].releaseNamespace \o "-ttl"
          /\ ret.input[1] = ret.input[2] => ret.out[1] = ret.out[2]
          /\ (/\ TwoNamesDerived
              /\ \/ ret.input[1].releaseName = ret.input[2].releaseName
                 \/ ret.input[1].releaseNamespace = ret.input[2].releaseNamespace
                 \/ {ret.input[1].releaseName, ret.input[2].releaseName}
                       \subseteq HyphenFree
                 \/ {ret.input[1].releaseNamespace,
                     ret.input[2].releaseNamespace} \subseteq HyphenFree)
                => ret.out[1].name # ret.out[2].name

\* Two pairs with hyphens in their release names and the same namespace got
\* different names.
DistinctNamesReached ==
    /\ TwoNamesDerived
    /\ ret.input[1].releaseName = "a-b"
    /\ ret.input[2].releaseName = "b-c"
    /\ ret.input[1].releaseNamespace = ret.input[2].releaseNamespace
    /\ ret.out[1].name # ret.out[2].name

(***************************************************************************)
(* The length limit of derived names                                       *)
(***************************************************************************)
\* The length of the name derived for a release.
DerivedLen(releaseName, releaseNamespace) ==
    Len(releaseName) + 1 + Len(releaseNamespace) + 4

\* BuildCronJob options for a release, free of the delete-namespace conflict.
LimitCronJobOptions ==
    [ReleaseName : LimitReleases, ReleaseNamespace : ReleaseNamespaces,
     CronjobNamespace : CronjobNamespaces, Schedule : {"0 0 1 1 *"},
     ServiceAccount : {"default"}, HelmImage : {""}, KubectlImage : {""},
     DeleteNamespace : {FALSE}]

\* BuildCronJob refuses a derived name of more than 52 characters and builds
\* the CronJob for one of exactly 52.
BuildCronJobChecksLength ==
    \A opts \in LimitCronJobOptions :
       LET built == BuildCronJob(opts)
       IN IF DerivedLen(opts.ReleaseName, opts.ReleaseNamespace) > 52
          THEN built.err = "NameTooLong" /\ built.cj = Nil
          ELSE /\ built.err = Nil
               /\ Len(built.cj.name) = 52

\* The step is a SetTTL call that got as far as deriving the name.
SetTTLDerivesName(opts, fault) ==
    /\ SetTTL(opts, fault)
    /\ ~(opts.DeleteNamespace /\ opts.ReleaseNamespace = opts.CronjobNamespace)
    /\ opts.Duration.n > 0

\* The step is a CreateServiceAccountAndRBAC call that got as far as deriving
\* the name.
ProvisionDerivesName ==
    /\ ret'.op = "CreateServiceAccountAndRBAC"
    /\ ~(/\ ret'.args.deleteNamespace
         /\ ret'.args.releaseNamespace = ret'.args.cronjobNamespace)

\* C25: an operation that derives a name of more than 52 characters returns
\* the length error, leaves every stored object as it was and starts no run,
\* whatever API call would have failed afterwards; with a derived name of
\* exactly 52 characters no operation returns the length error.
NameTooLongFailsFirst ==
    /\ []BuildCronJobChecksLength
    /\ [][/\ (/\ ops' = ops + 1
              /\ ret'.op \in {"SetTTL", "GetTTL", "UnsetTTL", "RunTTL"}
              /\ DerivedLen(ret'.ReleaseName, ret'.ReleaseNamespace) > 52)
             => /\ UNCHANGED clusterVars
                /\ ret'.err # Nil
                /\ run'.pc \in {"idle", "done"}
                /\ ret'.op # "SetTTL" => ret'.err = "NameTooLong"
                /\ \A opts \in LimitSetTTLOptions, fault \in OneOf({"create roles"}) :
                      SetTTLDerivesName(opts, fault) => ret'.err = "NameTooLong"
          /\ (/\ ops' = ops + 1
              /\ ret'.op \in {"CreateServiceAccountAndRBAC", "CleanupRBAC"}
              /\ DerivedLen(ret'.args.releaseName,
                            ret'.args.releaseNamespace) > 52)
             => /\ UNCHANGED clusterVars
                /\ ret'.err # Nil
                /\ (ret'.op = "CleanupRBAC" \/ ProvisionDerivesName)
                      => ret'.err = "NameTooLong"
          /\ (/\ ops' = ops + 1
              /\ ret'.op \in {"SetTTL", "GetTTL", "UnsetTTL", "RunTTL"}
              /\ DerivedLen(ret'.ReleaseName, ret'.ReleaseNamespace) = 52)
             => ret'.err # "NameTooLong"
          /\ (/\ ops' = ops + 1
              /\ ret'.op \in {"CreateServiceAccountAndRBAC", "CleanupRBAC"}
              /\ DerivedLen(ret'.args.releaseName,
                            ret'.args.releaseNamespace) = 52)
             => ret'.err # "NameTooLong"]_vars

\* An operation was refused for a 53-character name on a store that holds the
\* objects of the release with the 52-character name.
NameTooLongOnPopulatedStoreReached ==
    /\ ret.op \in {"UnsetTTL", "CleanupRBAC"}
    /\ ret.err = "NameTooLong"
    /\ Has(cronjobs, "ops", ResourceNameOf(FitRelease, "staging"))
    /\ Has(roles, "staging", ResourceNameOf(FitRelease, "staging"))

(***************************************************************************)
(* Properties of the schedule codec                                        *)
(***************************************************************************)
\* C26: for an instant with zero seconds, TimeToCronSchedule returns the five
\* fields minute, hour, day of month, month and "*", and ParseCronSchedule of
\* that schedule succeeds with the instant's minute, hour, day and month.
ScheduleRoundTrip ==
    ret.op = "ScheduleRoundTrip"
       => /\ ret.out.schedule
             = <<ToString(ret.input.minute), ToString(ret.input.hour),
                 ToString(ret.input.day), ToString(ret.input.month), "*">>
          /\ ret.out.parsed
             = [err |-> Nil, minute |-> ret.input.minute,
                hour |-> ret.input.hour, day |-> ret.input.day,
                month |-> ret.input.month]

\* The last minute of a year went through the round trip.
EndOfYearRoundTripReached ==
    /\ ret.op = "ScheduleRoundTrip"
    /\ ret.input = [year |-> 1, month |-> 12, day |-> 31, hour |-> 23,
                    minute |-> 59]
    /\ ret.out.parsed.err = Nil
    /\ ret.out.schedule[4] = "12"

NoOpCommand == <<"echo", "cleanup handled by helm-ttl run">>

\* The containers with the command of the one named self-cleanup replaced.
WithNoOpSelfCleanup(containers) ==
    [i \in DOMAIN containers |->
        IF containers[i].name = "self-cleanup"
        THEN [containers[i] EXCEPT !.command = NoOpCommand]
        ELSE containers[i]]

\* C28: the Job BuildJobFromCronJob returns has the given name, the CronJob's
\* namespace, the CronJob's labels plus triggered-by=run, and the CronJob's
\* job template as its spec, except that the command of the container named
\* self-cleanup is the no-op; init containers and other containers are as in
\* the CronJob.
JobRunsNoOpSelfCleanup ==
    ret.op = "BuildJobFromCronJob"
       => LET cj == ret.input.cj
              job == ret.out
              tpl == cj.spec.jobTemplate.spec
          IN /\ job.name = ret.input.jobName
             /\ job.namespace = cj.namespace
             /\ job.labels = (LabelTriggeredBy :> "run") @@ cj.labels
             /\ job.spec.template.spec.initContainers
                = tpl.template.spec.initContainers
             /\ job.spec.template.spec.containers
                = WithNoOpSelfCleanup(tpl.template.spec.containers)
             /\ job.spec
                = [tpl EXCEPT !.template.spec.containers
                                 = WithNoOpSelfCleanup(@)]

\* The five bookkeeping labels of a CronJob built from opts.
ExpectedLabels(opts) ==
    ("app.kubernetes.io/managed-by" :> "helm-ttl")
    @@ ("helm-ttl/release" :> opts.ReleaseName)
    @@ ("helm-ttl/release-namespace" :> opts.ReleaseNamespace)
    @@ ("helm-ttl/cronjob-namespace" :> opts.CronjobNamespace)
    @@ ("helm-ttl/delete-namespace"
          :> (IF opts.DeleteNamespace THEN "true" ELSE "false"))

\* C29: a CronJob BuildCronJob returns runs helm uninstall as its first init
\* container, the namespace deletion as its second init container exactly
\* when deleteNamespace is set, and the deletion of the CronJob itself as its
\* only main container; its concurrency policy is Forbid, its backoff limit
\* 0, it keeps 0 failed and 1 successful Jobs, and the CronJob, its job
\* template and its pod template carry the five bookkeeping labels.
BuildCronJobOrdersSteps ==
    (ret.op = "BuildCronJob" /\ ret.out.err = Nil)
       => LET opts == ret.input
              cj == ret.out.cj
              pod == cj.spec.jobTemplate.spec.template.spec
              init == pod.initContainers
          IN /\ Len(init) = (IF opts.DeleteNamespace THEN 2 ELSE 1)
             /\ init[1].name = "helm-uninstall"
             /\ init[1].command = <<"helm", "uninstall", opts.ReleaseName,
                                    "--namespace", opts.ReleaseNamespace>>
             /\ opts.DeleteNamespace
                   => /\ init[2].name = "delete-namespace"
                      /\ init[2].command = <<"kubectl", "delete", "namespace",
                                             opts.ReleaseNamespace>>
             /\ Len(pod.containers) = 1
             /\ pod.containers[1].name = "self-cleanup"
             /\ pod.containers[1].command
                = <<"kubectl", "delete", "cronjob",
                    opts.ReleaseName \o "-" \o opts.ReleaseNamespace \o "-ttl",
                    "--namespace", opts.CronjobNamespace>>
             /\ cj.spec.concurrencyPolicy = "Forbid"
             /\ cj.spec.jobTemplate.spec.backoffLimit = 0
             /\ cj.spec.failedJobsHistoryLimit = 0
             /\ cj.spec.successfulJobsHistoryLimit = 1
             /\ cj.labels = ExpectedLabels(opts)
             /\ cj.spec.jobTemplate.labels = ExpectedLabels(opts)
             /\ cj.spec.jobTemplate.spec.template.labels = ExpectedLabels(opts)
             /\ Cardinality(DOMAIN cj.labels) = 5

\* A CronJob that also deletes the release namespace was built.
DeleteNamespaceCronJobBuiltReached ==
    /\ ret.op = "BuildCronJob"
    /\ ret.out.err = Nil
    /\ ret.input.DeleteNamespace
    /\ Len(ret.out.cj.spec.jobTemplate.spec.template.spec.initContainers) = 2

(***************************************************************************)
(* Concurrent SetTTL calls                                                 *)
(***************************************************************************)
\* Both racing calls have returned.
RaceDone ==
    /\ ret.op = "SetTTLRace"
    /\ \A i \in {1, 2} : ret.calls[i].pc = "done"

\* The stored CronJob of the race has the spec and labels call i built.
StoredIsBuiltBy(i) ==
    LET cj == SetTTLBuilt(ret.calls[i].opts)
    IN /\ Has(cronjobs, cj.namespace, cj.name)
       /\ Obj(cronjobs, cj.namespace, cj.name).spec = cj.spec
       /\ Obj(cronjobs, cj.namespace, cj.name).labels = cj.labels

\* C30 as stated: under every interleaving both calls return success and the
\* stored CronJob is the one built by one of them.
SetRaceBothSucceed ==
    RaceDone => /\ \A i \in {1, 2} : ret.calls[i].err = Nil
                /\ \E i \in {1, 2} : StoredIsBuiltBy(i)

\* C30, amended: under every interleaving at least one call returns success
\* and the stored CronJob has the spec and labels built by a call that
\* returned success; a call fails only in its Create, having seen no CronJob
\* while the other call created it, or in its Update; a call that begins
\* after the other has returned succeeds and its CronJob is the one stored.
SetRaceSuccessfulWriteWins ==
    RaceDone
       => /\ \E i \in {1, 2} : ret.calls[i].err = Nil /\ StoredIsBuiltBy(i)
          /\ \A i \in {1, 2} :
                /\ ret.calls[i].err
                      \in {Nil, "CreateCronJobFailed", "UpdateCronJobFailed"}
                /\ ret.calls[i].err = "CreateCronJobFailed"
                      => /\ ret.calls[i].seen = {}
                         /\ ret.calls[3 - i].err = Nil
                /\ ret.calls[i].err = "UpdateCronJobFailed"
                      => /\ ret.calls[i].seen # {}
                         /\ ret.calls[3 - i].err = Nil
                /\ ret.calls[i].alone
                      => /\ ret.calls[i].err = Nil
                         /\ ret.calls[3 - i].err = Nil
                         /\ StoredIsBuiltBy(i)

\* Both calls saw no CronJob, one created it and the other's Create failed.
CreateRaceLostReached ==
    /\ RaceDone
    /\ ret.calls[1].seen = {}
    /\ ret.calls[2].seen = {}
    /\ ret.calls[1].err = Nil
    /\ ret.calls[2].err = "CreateCronJobFailed"
    /\ StoredIsBuiltBy(1)
    /\ ~StoredIsBuiltBy(2)

(***************************************************************************)
(* The polling loops of RunTTL                                             *)
(***************************************************************************)
\* The container waitForContainerTermination is polling for.
AwaitedContainer == run.allContainers[Len(run.result.ContainerResults) + 1]

\* The polled pod is stored and its awaited container has not terminated.
StillRunning ==
    /\ Has(pods, run.CronjobNamespace, run.podName)
    /\ Obj(pods, run.CronjobNamespace, run.podName).status[AwaitedContainer]
       = NotTerminated

\* C31: a failing list or get call ends the wait with that error whatever the
\* pods are; while the list is empty, or the container has not terminated,
\* and the context is not done, the run stays in its loop; a wait ends with
\* a timeout only when the context is done and the awaited state is absent.
PollingDistinguishesFailureFromWaiting ==
    [][/\ (run.pc = "waitForPod" /\ run'.pc # "waitForPod")
          => /\ "list pods" \in run.fault
                   <=> run'.runErr = "PodListFailed"
             /\ run'.runErr = "PodWaitTimeout"
                   => /\ run.ctxDone
                      /\ PodsOfJob(pods, run.CronjobNamespace, run.jobName) = {}
             /\ run'.runErr # Nil => run'.pc = "cleanup"
       /\ (/\ run.pc = "waitForPod"
           /\ "list pods" \notin run.fault
           /\ PodsOfJob(pods, run.CronjobNamespace, run.jobName) = {}
           /\ ~run.ctxDone)
          => run'.pc = "waitForPod" /\ run'.runErr = Nil
       /\ (/\ run.pc = "waitForContainerTermination"
           /\ run' # run
           /\ run'.ctxDone = run.ctxDone)
          => /\ "get pods" \in run.fault
                   => run'.runErr = "PodGetFailed" /\ run'.pc = "cleanup"
             /\ run'.runErr = "ContainerWaitTimeout"
                   => run.ctxDone /\ StillRunning /\ run'.pc = "cleanup"
             /\ (/\ "get pods" \notin run.fault
                 /\ StillRunning
                 /\ ~run.ctxDone)
                => /\ run'.pc = "waitForContainerTermination"
                   /\ run'.runErr = Nil
                   /\ run'.result = run.result]_vars

\* A wait for the pod ended with the list error although the context was done
\* and no pod was listed.
ListErrorBeforeTimeoutReached ==
    /\ run.pc = "cleanup"
    /\ run.runErr = "PodListFailed"
    /\ run.ctxDone
    /\ PodsOfJob(pods, run.CronjobNamespace, run.jobName) = {}

(***************************************************************************)
(* Termination of RunTTL                                                   *)
(***************************************************************************)
\* RunTTL has created its Job and not yet returned.
Running == run.pc \in {"waitForPod", "waitForContainerTermination", "cleanup"}

\* C32: with a context that ends at some time, every RunTTL that created its
\* Job returns, also when no pod appears or a container never terminates,
\* and when it has returned the Job deletion and CleanupRBAC of its cleanup
\* have been made and nothing of the run is pending.
RunNowTerminates ==
    /\ Running ~> run.pc = "done"
    /\ [](run.pc = "done"
            => /\ ret.op = "RunTTL"
               /\ ret.err # "pending"
               /\ run.jobCreated
                     => {"delete jobs", "CleanupRBAC"} \subseteq run.calls)

\* A run returned with the container-wait timeout after an init container had
\* failed and the next container never terminated.
ReturnedAfterInitFailureReached ==
    /\ run.pc = "done"
    /\ run.runErr = "ContainerWaitTimeout"
    /\ Len(run.result.ContainerResults) = 1
    /\ run.result.ContainerResults[1].ExitCode = 1
    /\ "CleanupRBAC" \in run.calls

(***************************************************************************)
(* Container logs                                                          *)
(***************************************************************************)
\* The run without what it wrote to the log sink.
WithoutLog(r) == [r EXCEPT !.log = <<>>]

\* The step records the result of one more container.
RecordsContainer ==
    /\ run.pc = "waitForContainerTermination"
    /\ Len(run'.result.ContainerResults) = Len(run.result.ContainerResults) + 1

\* C33: the step that records a container writes the container's header to
\* the sink, and the logs after it only when the fetch succeeds; the
\* container had terminated, its exit code is recorded, no error is kept and
\* the run goes on as it would had the fetch succeeded; the error a run
\* returns is computed from the wait error and the exit codes alone.
LogFetchFailureIsNotFatal ==
    /\ [][RecordsContainer
            => LET name == AwaitedContainer
                   code == Obj(pods, run.CronjobNamespace,
                               run.podName).status[name]
                   failed == "get logs" \in run.fault
               IN /\ code # NotTerminated
                  /\ run'.log
                     = run.log \o <<"==> Container: " \o name \o " <==">>
                       \o (IF failed THEN <<>> ELSE <<"logs of " \o name>>)
                  /\ run'.result.ContainerResults
                     = Append(run.result.ContainerResults,
                              [Name |-> name, ExitCode |-> code])
                  /\ run'.runErr = Nil
                  /\ run'.pc = IF Len(run'.result.ContainerResults)
                                  = Len(run.allContainers)
                               THEN "cleanup"
                               ELSE "waitForContainerTermination"
                  /\ WithoutLog(run')
                     = WithoutLog([Recorded([run EXCEPT !.fault = {}], name, code)
                                     EXCEPT !.fault = run.fault])]_vars
    /\ [](run.pc = "done" /\ run.jobCreated /\ run.fault \subseteq {"get logs"}
            => /\ Len(run.log) >= Len(run.result.ContainerResults)
               /\ ret.err = (IF run.runErr # Nil THEN run.runErr
                             ELSE IF \E i \in 1..Len(run.result.ContainerResults) :
                                        run.result.ContainerResults[i].ExitCode # 0
                             THEN "JobFailed" ELSE Nil))

\* A run whose log fetches all failed returned success with every container
\* recorded and only the headers in the sink.
RunSucceededWithoutLogsReached ==
    /\ run.pc = "done"
    /\ "get logs" \in run.fault
    /\ ret.err = Nil
    /\ Len(run.result.ContainerResults) = Len(run.allContainers)
    /\ Len(run.log) = Len(run.allContainers)
    /\ Len(run.allContainers) >= 2

(***************************************************************************)
(* Namespace deletion by RunTTL                                            *)
(***************************************************************************)
\* The step is the Get of the CronJob and the creation of the Job of a run.
RunStarts == run.pc \in {"idle", "done"} /\ run'.pc = "waitForPod"

\* The step is the cleanup of a run and its return.
RunCleansUp == run.pc = "cleanup" /\ run'.pc = "done"

\* C34: the cleanup deletes the release namespace exactly when the
\* delete-namespace label of the CronJob the run got at its start was "true"
\* (and the deletion call does not fail), however the run went and whatever
\* the label is by then; the result reports the deletion exactly in those
\* runs; no other step of a run removes a namespace, and the namespace of the
\* CronJob is never removed.
NamespaceDeletedIffLabelled ==
    [][/\ RunStarts
          => run'.deleteNamespace
             = (Obj(cronjobs, run'.CronjobNamespace,
                    ResourceNameOf(run'.ReleaseName, run'.ReleaseNamespace))
                   .labels["helm-ttl/delete-namespace"] = "true")
       /\ RunCleansUp
          => LET deleted == /\ run.deleteNamespace
                            /\ "delete namespaces" \notin run.fault
             IN /\ namespaces' = IF deleted
                                 THEN namespaces \ {run.ReleaseNamespace}
                                 ELSE namespaces
                /\ "delete namespaces" \in run'.calls <=> run.deleteNamespace
                /\ ret'.result.DeletedNamespace <=> deleted
                /\ (run.deleteNamespace /\ ~deleted)
                      => ret'.err = "DeleteNamespaceFailed"
       /\ ~RunCleansUp => namespaces' = namespaces
       /\ run.CronjobNamespace \in namespaces
          => run.CronjobNamespace \in namespaces']_vars

\* A run that timed out waiting for its pod deleted the release namespace,
\* although the CronJob's label had been set to "false" during the run.
NamespaceDeletedAfterTimeoutReached ==
    /\ run.pc = "done"
    /\ run.runErr = "PodWaitTimeout"
    /\ run.deleteNamespace
    /\ run.ReleaseNamespace \notin namespaces
    /\ ret.result.DeletedNamespace
    /\ \E cj \in cronjobs : /\ cj.namespace = run.CronjobNamespace
                            /\ cj.labels[LabelDeleteNamespace] = "false"

(***************************************************************************)
(* Properties of CreateServiceAccountAndRBAC after a failure               *)
(***************************************************************************)
\* CreateServiceAccountAndRBAC with no failing call on the store c.
Reprovisioned(c, args) ==
    CreateServiceAccountAndRBAC(c, args.releaseName, args.releaseNamespace,
        args.cronjobNamespace, args.serviceAccountName, args.deleteNamespace,
        {})

\* The store is the empty cluster with a proper subset of the bundle.
ProperSubBundleLeft(args) ==
    \E b \in SubBundles(ExpectedBundle(args)) :
       /\ b # ExpectedBundle(args)
       /\ Cluster = WithBundle(EmptyCluster, b)

\* C35: CreateServiceAccountAndRBAC can be run again after a partial
\* failure: from every proper subset of the bundle in an otherwise empty
\* cluster, and from the store a call with one failing create step left, a
\* call with the same arguments and no failing call succeeds and leaves the
\* store one successful call leaves from the empty cluster.
ProvisionRetryConverges ==
    /\ [](ops = 0
            => \A args \in ProvisionArgs :
                  Accepted(args)
                     => \A b \in SubBundles(ExpectedBundle(args)) :
                           Reprovisioned(WithBundle(EmptyCluster, b), args)
                           = Reprovisioned(EmptyCluster, args))
    /\ []((/\ ops = 1
           /\ ret.op = "CreateServiceAccountAndRBAC"
           /\ ret.err # Nil
           /\ Accepted(ret.args))
             => /\ ProperSubBundleLeft(ret.args)
                /\ Reprovisioned(Cluster, ret.args)
                   = Reprovisioned(EmptyCluster, ret.args))
    /\ [][(/\ ops = 1
           /\ ret'.op = "CreateServiceAccountAndRBAC"
           /\ ret'.retry
           /\ ret'.err = Nil)
          => Cluster' = Reprovisioned(EmptyCluster, ret'.args).c]_vars

\* A call that failed part-way was followed by a successful call with the
\* same cross-namespace arguments, which completed the bundle.
ProvisionRetriedReached ==
    /\ ops = 2
    /\ ret.op = "CreateServiceAccountAndRBAC"
    /\ ret.retry
    /\ ret.err = Nil
    /\ ret.args.deleteNamespace
    /\ Cluster = WithBundle(EmptyCluster, ExpectedBundle(ret.args))

\* The objects of the bundle in the order CreateServiceAccountAndRBAC
\* creates them, each with the collection that stores it.
ProvisionSteps(args) ==
    LET b == ExpectedBundle(args)
        in(kind, ns) == <<kind, CHOOSE o \in b[kind] : o.namespace = ns>>
        account == in("serviceAccounts", args.cronjobNamespace)
    IN IF args.releaseNamespace = args.cronjobNamespace
       THEN <<account, in("roles", args.releaseNamespace),
              in("roleBindings", args.releaseNamespace)>>
       ELSE <<account, in("roles", args.releaseNamespace),
              in("roleBindings", args.releaseNamespace),
              in("roles", args.cronjobNamespace),
              in("roleBindings", args.cronjobNamespace)>>
            \o (IF args.deleteNamespace
                THEN <<in("clusterRoles", ""), in("clusterRoleBindings", "")>>
                ELSE <<>>)

\* The objects of the first n steps, as a bundle.
StepsDone(args, n) ==
    [kind \in BundleKinds |->
        {ProvisionSteps(args)[i][2] :
            i \in {j \in 1..n : ProvisionSteps(args)[j][1] = kind}}]

\* The role and the service account a stored binding refers to are stored.
BindingResolves(c, binding, roleKind) ==
    /\ Has(c[roleKind], binding.namespace, binding.roleRef.name)
    /\ \A i \in 1..Len(binding.subjects) :
          Has(c.serviceAccounts, binding.subjects[i].namespace,
              binding.subjects[i].name)

\* C36: CreateServiceAccountAndRBAC creates the service account before any
\* role or binding and, within each scope, the role before its binding, and
\* stops at the first failing step: a call that fails on the empty cluster
\* leaves the objects of the steps before the failing one and nothing else,
\* and after every call, failed or not, each binding it wrote is stored
\* together with the role it references and its subject, and each role it
\* wrote together with the service account.
ProvisionOrdersSteps ==
    /\ []((/\ ops = 1
           /\ ret.op = "CreateServiceAccountAndRBAC"
           /\ ret.err # Nil
           /\ Accepted(ret.args))
             => \E n \in 0..(Len(ProvisionSteps(ret.args)) - 1) :
                   Cluster = WithBundle(EmptyCluster, StepsDone(ret.args, n)))
    /\ [][ret'.op = "CreateServiceAccountAndRBAC"
          => /\ \A b \in roleBindings' \ roleBindings :
                   BindingResolves(Cluster', b, "roles")
             /\ \A b \in clusterRoleBindings' \ clusterRoleBindings :
                   BindingResolves(Cluster', b, "clusterRoles")
             /\ (roles' # roles \/ clusterRoles' # clusterRoles)
                   => Has(serviceAccounts', ret'.args.cronjobNamespace,
                          ret'.args.serviceAccountName)]_vars

\* A cross-namespace call failed at the role of the CronJob namespace: the
\* service account and the role and binding of the release namespace are
\* stored, no object of the later steps is.
ProvisionStoppedAtSecondRoleReached ==
    /\ ops = 1
    /\ ret.op = "CreateServiceAccountAndRBAC"
    /\ ret.err # Nil
    /\ ret.args.deleteNamespace
    /\ Cluster = WithBundle(EmptyCluster, StepsDone(ret.args, 3))

(***************************************************************************)
(* The service account of a TTL set with CreateServiceAccount              *)
(***************************************************************************)
\* The service account named in the pod template of the CronJob SetTTL
\* stored for the release of the last return value.
StoredServiceAccount ==
    Obj(cronjobs, ret.CronjobNamespace,
        ResourceNameOf(ret.ReleaseName, ret.ReleaseNamespace))
       .spec.jobTemplate.spec.template.spec.serviceAccountName

\* The arguments SetTTL gave CreateServiceAccountAndRBAC, read from its
\* return value and the CronJob it stored.
StoredProvisionArgs ==
    [releaseName |-> ret.ReleaseName,
     releaseNamespace |-> ret.ReleaseNamespace,
     cronjobNamespace |-> ret.CronjobNamespace,
     serviceAccountName |-> StoredServiceAccount,
     deleteNamespace |->
        Obj(cronjobs, ret.CronjobNamespace,
            ResourceNameOf(ret.ReleaseName, ret.ReleaseNamespace))
           .labels[LabelDeleteNamespace] = "true"]

\* SetTTL succeeded on the empty cluster and roles are stored: it was
\* called with CreateServiceAccount.
SetWithCreatedAccount ==
    /\ ops = 1
    /\ ret.op = "SetTTL"
    /\ ret.err = Nil
    /\ roles # {}

\* On the empty cluster a successful SetTTL stores roles exactly when it is
\* called with CreateServiceAccount, and it then names in the CronJob the
\* service account it created: ResourceName for the default name, the
\* caller's name otherwise.
SetCreatesNamedAccount ==
    \A opts \in SetTTLOptions :
       LET out == SetTTLOutcome(EmptyCluster, opts, {})
           name == ResourceNameOf(opts.ReleaseName, opts.ReleaseNamespace)
           saName == IF opts.ServiceAccount = "default" THEN name
                     ELSE opts.ServiceAccount
       IN out.err = Nil
             => /\ out.c.roles # {} <=> opts.CreateServiceAccount
                /\ opts.CreateServiceAccount
                      => /\ Obj(out.c.cronjobs, opts.CronjobNamespace, name)
                               .spec.jobTemplate.spec.template.spec
                               .serviceAccountName = saName
                         /\ Has(out.c.serviceAccounts, opts.CronjobNamespace,
                                saName)

\* After SetTTL with CreateServiceAccount, the service account named in the
\* stored CronJob is stored in cronjobNamespace with the bundle whose
\* bindings name it as subject.
SetNamesCreatedAccount ==
    /\ ops = 0 => SetCreatesNamedAccount
    /\ SetWithCreatedAccount
          => HoldsBundle(Cluster, ExpectedBundle(StoredProvisionArgs))

\* C37 as stated: after SetTTL succeeded with CreateServiceAccount, the
\* service account named in the stored CronJob is the one the bundle was
\* created for, and an UnsetTTL for the release that follows and removes
\* the roles of the bundle removes that service account as well.
SetThenUnsetRemovesIdentity ==
    /\ []SetNamesCreatedAccount
    /\ [][(/\ SetWithCreatedAccount
           /\ ret'.op = "UnsetTTL"
           /\ ret'.err = Nil
           /\ ret'.ReleaseName = ret.ReleaseName
           /\ ret'.ReleaseNamespace = ret.ReleaseNamespace
           /\ ret'.CronjobNamespace = ret.CronjobNamespace
           /\ NoneOfBundle([Cluster' EXCEPT !.serviceAccounts = {}],
                           ExpectedBundle(StoredProvisionArgs)))
          => ~Has(serviceAccounts', ret.CronjobNamespace,
                  StoredServiceAccount)]_vars

(***************************************************************************)
(* Properties of the CronJob lookup of CleanupOrphaned                     *)
(***************************************************************************)
\* The CronJob the labels point to can be named and is not stored.
LookupNotFound(c, labels) ==
    LET releaseNs == LabelOf(labels, LabelReleaseNamespace)
        cronjobNs == IF LabelOf(labels, LabelCronjobNamespace) = ""
                     THEN releaseNs
                     ELSE LabelOf(labels, LabelCronjobNamespace)
        releaseName == LabelOf(labels, LabelRelease)
    IN /\ Len(releaseName) + Len(releaseNs) + 5 <= 52
       /\ ~\E cj \in c.cronjobs :
             /\ cj.namespace = cronjobNs
             /\ cj.name = releaseName \o "-" \o releaseNs \o "-ttl"

\* The stored objects of the five bundle kinds, each with its kind.
BundleObjects(c) ==
    UNION {{<<k, o>> : o \in c[k]} : k \in BundleKinds}

\* C38: CleanupOrphaned reports and deletes an object only when the lookup
\* of its CronJob answers NotFound: when every lookup fails otherwise it
\* reports nothing and deletes nothing in either mode; in every call each
\* reported object and each deleted object is one whose CronJob can be
\* named and is not stored; an object whose labels give a name longer than
\* 52 characters is never reported and never deleted.
SweepOnlyOnNotFound ==
    /\ [](\A args \in FindOrphansArgs :
            CleanupOrphaned(Cluster, args.namespaces, args.allNamespaces,
                            args.dryRun, {"get cronjobs"})
            = [c |-> Cluster, err |-> Nil, orphaned |-> <<>>])
    /\ [][ret'.op = "CleanupOrphaned"
          => /\ \A i \in 1..Len(ret'.orphaned) :
                   \E o \in Cluster[KindField(ret'.orphaned[i].Kind)] :
                      /\ o.name = ret'.orphaned[i].Name
                      /\ o.namespace = ret'.orphaned[i].Namespace
                      /\ LookupNotFound(Cluster, o.labels)
             /\ \A ko \in BundleObjects(Cluster) \ BundleObjects(Cluster') :
                   LookupNotFound(Cluster, ko[2].labels)
             /\ UnnamableRole \in roles
                   => /\ UnnamableRole \in roles'
                      /\ \A i \in 1..Len(ret'.orphaned) :
                            ret'.orphaned[i]
                            # [Kind |-> "Role", Name |-> UnnamableRole.name,
                               Namespace |-> UnnamableRole.namespace]]_vars

\* A sweep without dryRun whose lookups failed returned no orphan and left
\* an orphaned bundle and the unnamable Role in place.
SweepLookupFailedReached ==
    /\ ret.op = "CleanupOrphaned"
    /\ ~ret.args.dryRun
    /\ ret.err = Nil
    /\ ret.orphaned = <<>>
    /\ UnnamableRole \in roles
    /\ \E r \in roles : /\ LabelOf(r.labels, LabelRelease) = "ghost"
                         /\ r.namespace \in
                               {ns \in {"ops", "staging"} :
                                   \E i \in 1..Len(ret.args.namespaces) :
                                      ret.args.namespaces[i] = ns}
                         /\ LookupNotFound(Cluster, r.labels)

(***************************************************************************)
(* Properties of CleanupOrphaned next to SetTTL                            *)
(***************************************************************************)
\* The SetTTL call next to the sweep returned success.
SweptSetReturned ==
    /\ ret.calls[1].pc = "done"
    /\ ret.calls[1].err = Nil

\* The arguments that call gave CreateServiceAccountAndRBAC.
SweptSetBundle ==
    LET opts == ret.calls[1].opts
        name == ResourceNameOf(opts.ReleaseName, opts.ReleaseNamespace)
    IN ExpectedBundle([releaseName |-> opts.ReleaseName,
                       releaseNamespace |-> opts.ReleaseNamespace,
                       cronjobNamespace |-> opts.CronjobNamespace,
                       serviceAccountName |-> SetTTLServiceAccount(opts, name),
                       deleteNamespace |-> opts.DeleteNamespace])

RunJobName(labels) ==
    ResourceNameOf(LabelOf(labels, LabelRelease),
                   LabelOf(labels, LabelReleaseNamespace)) \o "-run"

\* Every stored Job is named after its release, once under its key.
OneRunJobPerName ==
    \A j \in jobs :
       /\ j.name = RunJobName(j.labels)
       /\ Cardinality({x \in jobs : /\ x.namespace = j.namespace
                                    /\ x.name = j.name}) = 1

\* This step is a RunTTL call that starts while the Job it would create is
\* stored.
RunStartsOverJob ==
    /\ ops' = ops + 1
    /\ ret'.op = "RunTTL"
    /\ run.pc \in {"idle", "done"}
    /\ Has(jobs, run'.CronjobNamespace,
           ResourceNameOf(run'.ReleaseName, run'.ReleaseNamespace) \o "-run")

\* This step is another caller's RunTTL during a run whose Job is stored.
OtherRunStartsOverJob ==
    /\ ops' = ops + 1
    /\ run.pc \notin {"idle", "done"}
    /\ "other" \in DOMAIN ret'
    /\ Has(jobs, ret'.other.CronjobNamespace, run.jobName)

\* The call created no Job, ran no container and deleted nothing.
RunDidNothing ==
    /\ UNCHANGED clusterVars
    /\ run'.pc = "done"
    /\ ~run'.jobCreated
    /\ run'.allContainers = <<>>
    /\ run'.result = NilResult

\* The other caller's call created no Job and deleted nothing, and the run
\* in progress goes on.
OtherRunDidNothing ==
    /\ UNCHANGED clusterVars
    /\ UNCHANGED run

\* C40 as stated: there is at most one Job named ResourceName-run in a
\* namespace, and a RunTTL that starts while that Job is stored, after a
\* cleanup that could not delete it or during another run, fails at the
\* creation of its Job, runs no container and deletes neither the Job nor
\* the CronJob nor the bundle.
SecondRunFailsAtJobCreation ==
    /\ []OneRunJobPerName
    /\ [][RunStartsOverJob
            => ret'.err = "CreateJobFailed" /\ RunDidNothing]_vars
    /\ [][OtherRunStartsOverJob
            => ret'.other.err = "CreateJobFailed" /\ OtherRunDidNothing]_vars

\* C40, amended: there is at most one Job named ResourceName-run in a
\* namespace, and a RunTTL that starts while that Job is stored creates no
\* Job, runs no container and deletes nothing: it fails at the creation of
\* its Job when the CronJob is stored, and with TTLNotFound before that
\* when the CronJob is gone.
SecondRunCreatesNothing ==
    /\ []OneRunJobPerName
    /\ [][RunStartsOverJob
            => /\ ret'.err = IF ret'.existed THEN "CreateJobFailed"
                             ELSE "TTLNotFound"
               /\ RunDidNothing]_vars
    /\ [][OtherRunStartsOverJob
            => /\ ret'.other.err
                  = IF Existed(Cluster, run.ReleaseName, run.ReleaseNamespace,
                               ret'.other.CronjobNamespace)
                    THEN "CreateJobFailed" ELSE "TTLNotFound"
               /\ OtherRunDidNothing]_vars

\* A RunTTL called after a run whose cleanup left its Job failed at the
\* creation of its Job: the Job, the CronJob and no run in progress.
RerunOverLeftoverJobReached ==
    /\ ops >= 2
    /\ ret.op = "RunTTL"
    /\ ret.err = "CreateJobFailed"
    /\ run.pc = "done"
    /\ run.fault = {}
    /\ ~run.jobCreated
    /\ Has(jobs, run.CronjobNamespace,
           ResourceNameOf(run.ReleaseName, run.ReleaseNamespace) \o "-run")
    /\ Existed(Cluster, run.ReleaseName, run.ReleaseNamespace,
               run.CronjobNamespace)

====
